---- MODULE Spec2Model ----
(***************************************************************************)
(* Email-to-transaction normalisation pipeline of transaction-manager-data *)
(* (gmail.py, outlook.py, extract_and_upload_data/update_data.py,          *)
(* main.py).  Strings are TLA+ strings handled character by character, so  *)
(* that the regular expressions, the substring tests and the slices of the *)
(* source are computed as Python computes them.  The results of the        *)
(* external libraries (base64 + BeautifulSoup) are the documents carried   *)
(* by the message fixtures.                                                *)
(***************************************************************************)
EXTENDS Integers, Sequences, FiniteSets, TLC

VARIABLES
    store,       \* the 'transactions' table: the sequence of appended rows
    pc,          \* position of the current run of an entry point
    script,      \* entry point of the run: "gmail", "outlook", "update_data", "main"
    user_email,  \* gmail_update's user_email argument (None for the others)
    raw,         \* raw_transactions: the fetched batch of messages
    df,          \* transactions_df: the rows email_to_dataframe returned
    filtered,    \* filtered_transactions, later categorized_df
    ret,         \* what the entry point returned ("True", "False", "None")
                 \*   or the exception that escaped it
    prev         \* history: the previous completed run (for re-run claims)

vars == <<store, pc, script, user_email, raw, df, filtered, ret, prev>>

\* Python's None, for the optional string fields of a row.
None == "<None>"

-----------------------------------------------------------------------------
(* Strings *)

Char(s, i) == SubSeq(s, i, i)

Tail_(s, i) == SubSeq(s, i, Len(s))

\* s[i:i+len(t)] == t
StartsAt(s, i, t) ==
    /\ i >= 1
    /\ i + Len(t) - 1 <= Len(s)
    /\ SubSeq(s, i, i + Len(t) - 1) = t

\* Python's `t in s` for strings.
Contains(s, t) == \E i \in 1..(Len(s) - Len(t) + 1) : StartsAt(s, i, t)

\* str.startswith
startswith(s, t) == StartsAt(s, 1, t)

MinOf(S) == CHOOSE x \in S : \A y \in S : x <= y

MaxOf(S) == CHOOSE x \in S : \A y \in S : x >= y

Digit == {"0", "1", "2", "3", "4", "5", "6", "7", "8", "9"}

UpperAz == {"A", "B", "C", "D", "E", "F", "G", "H", "I", "J", "K", "L", "M",
            "N", "O", "P", "Q", "R", "S", "T", "U", "V", "W", "X", "Y", "Z"}

LowerAz == {"a", "b", "c", "d", "e", "f", "g", "h", "i", "j", "k", "l", "m",
            "n", "o", "p", "q", "r", "s", "t", "u", "v", "w", "x", "y", "z"}

\* \s of the re module, for the characters the fixtures use.
Space == {" ", "\t", "\n", "\r"}

\* [0-9,.]
NumeralCh == Digit \cup {",", "."}

\* \w
WordCh == Digit \cup UpperAz \cup LowerAz \cup {"_", "é", "É"}

LowerPairs ==
    {<<"A", "a">>, <<"B", "b">>, <<"C", "c">>, <<"D", "d">>, <<"E", "e">>,
     <<"F", "f">>, <<"G", "g">>, <<"H", "h">>, <<"I", "i">>, <<"J", "j">>,
     <<"K", "k">>, <<"L", "l">>, <<"M", "m">>, <<"N", "n">>, <<"O", "o">>,
     <<"P", "p">>, <<"Q", "q">>, <<"R", "r">>, <<"S", "s">>, <<"T", "t">>,
     <<"U", "u">>, <<"V", "v">>, <<"W", "w">>, <<"X", "x">>, <<"Y", "y">>,
     <<"Z", "z">>, <<"É", "é">>}

LowerChar(c) ==
    IF \E p \in LowerPairs : p[1] = c
    THEN (CHOOSE p \in LowerPairs : p[1] = c)[2]
    ELSE c

RECURSIVE lower(_)
\* str.lower
lower(s) == IF s = "" THEN "" ELSE LowerChar(Char(s, 1)) \o lower(Tail_(s, 2))

RECURSIVE RunEnd(_, _, _)
\* The index after the longest run of characters of cls that starts at i
\* (i itself when s[i] is not in cls): a greedy [cls]*.
RunEnd(s, i, cls) ==
    IF i <= Len(s) /\ Char(s, i) \in cls THEN RunEnd(s, i + 1, cls) ELSE i

RECURSIVE RunStart(_, _, _)
\* The first index of the run of characters of cls that ends at i.
RunStart(s, i, cls) ==
    IF i >= 1 /\ Char(s, i) \in cls THEN RunStart(s, i - 1, cls) ELSE i + 1

\* Every character of s[i:i+n] is in cls, and the slice is inside s.
AllIn(s, i, n, cls) ==
    /\ i >= 1
    /\ i + n - 1 <= Len(s)
    /\ \A k \in i..(i + n - 1) : Char(s, k) \in cls

\* \d{2}/\d{2}/\d{4} at i
DateAt(s, i) ==
    /\ AllIn(s, i, 2, Digit) /\ StartsAt(s, i + 2, "/")
    /\ AllIn(s, i + 3, 2, Digit) /\ StartsAt(s, i + 5, "/")
    /\ AllIn(s, i + 6, 4, Digit)

-----------------------------------------------------------------------------
(* Regular expressions.  A match is [end |-> index after the match,        *)
(* groups |-> the capture groups as re.findall reports them ("" for a      *)
(* group that did not take part)]; NoMatch has end = 0.                    *)

NoMatch == [end |-> 0, groups |-> <<>>]

\* The group of a lazy (.*?) that starts at g and is followed by what After
\* recognises: the smallest q >= g with After(q), '.' not crossing a newline.
LazyEnds(s, g) ==
    {q \in g..(Len(s) + 1) : \A k \in g..(q - 1) : Char(s, k) /= "\n"}

\* MONEY = (US)?\$([0-9,.]+)
MoneyAt(s, p) ==
    IF StartsAt(s, p, "US$") /\ AllIn(s, p + 3, 1, NumeralCh)
    THEN [end |-> RunEnd(s, p + 3, NumeralCh),
          groups |-> <<"US", SubSeq(s, p + 3, RunEnd(s, p + 3, NumeralCh) - 1)>>]
    ELSE IF StartsAt(s, p, "$") /\ AllIn(s, p + 1, 1, NumeralCh)
    THEN [end |-> RunEnd(s, p + 1, NumeralCh),
          groups |-> <<"", SubSeq(s, p + 1, RunEnd(s, p + 1, NumeralCh) - 1)>>]
    ELSE NoMatch

\* TC_TIMESTAMP = (\d{2}/\d{2}/\d{4}\s\d{2}:\d{2})
TimestampAt(s, p) ==
    IF /\ DateAt(s, p)
       /\ AllIn(s, p + 10, 1, Space)
       /\ AllIn(s, p + 11, 2, Digit)
       /\ StartsAt(s, p + 13, ":")
       /\ AllIn(s, p + 14, 2, Digit)
    THEN [end |-> p + 16, groups |-> <<SubSeq(s, p, p + 15)>>]
    ELSE NoMatch

\* TC_REASON = \*{4}\d{4} en (.*?) el \d{2}/\d{2}/\d{4}
ReasonAt(s, p) ==
    IF StartsAt(s, p, "****") /\ AllIn(s, p + 4, 4, Digit) /\ StartsAt(s, p + 8, " en ")
    THEN LET ends == {q \in LazyEnds(s, p + 12) :
                         StartsAt(s, q, " el ") /\ DateAt(s, q + 4)}
         IN  IF ends = {} THEN NoMatch
             ELSE [end |-> MinOf(ends) + 14,
                   groups |-> <<SubSeq(s, p + 12, MinOf(ends) - 1)>>]
    ELSE NoMatch

\* gmail.py: TC_PAYMENT_MONEY = (USD)\s([0-9,.]+)|\$([0-9,.]+)
GmailPaymentAt(s, p) ==
    IF StartsAt(s, p, "USD") /\ AllIn(s, p + 3, 1, Space) /\ AllIn(s, p + 4, 1, NumeralCh)
    THEN [end |-> RunEnd(s, p + 4, NumeralCh),
          groups |-> <<"USD", SubSeq(s, p + 4, RunEnd(s, p + 4, NumeralCh) - 1), "">>]
    ELSE IF StartsAt(s, p, "$") /\ AllIn(s, p + 1, 1, NumeralCh)
    THEN [end |-> RunEnd(s, p + 1, NumeralCh),
          groups |-> <<"", "", SubSeq(s, p + 1, RunEnd(s, p + 1, NumeralCh) - 1)>>]
    ELSE NoMatch

\* outlook.py, update_data.py: TC_PAYMENT_MONEY = (Monto) \$([0-9,.]+)
MontoAt(s, p) ==
    IF StartsAt(s, p, "Monto $") /\ AllIn(s, p + 7, 1, NumeralCh)
    THEN [end |-> RunEnd(s, p + 7, NumeralCh),
          groups |-> <<"Monto", SubSeq(s, p + 7, RunEnd(s, p + 7, NumeralCh) - 1)>>]
    ELSE NoMatch

\* gmail.py: TRANSFER_DEST_T1 = fondos a ([A-Za-z\s]+)
DestT1At(s, p) ==
    IF StartsAt(s, p, "fondos a ") /\ AllIn(s, p + 9, 1, UpperAz \cup LowerAz \cup Space)
    THEN [end |-> RunEnd(s, p + 9, UpperAz \cup LowerAz \cup Space),
          groups |-> <<SubSeq(s, p + 9,
                              RunEnd(s, p + 9, UpperAz \cup LowerAz \cup Space) - 1)>>]
    ELSE NoMatch

\* The index after the run of characters that are neither \r nor \n.
LineEnd(s, i) ==
    MinOf({q \in i..(Len(s) + 1) : q = Len(s) + 1 \/ Char(s, q) \in {"\r", "\n"}})

\* gmail.py: TRANSFER_DEST_T2 = Nombre y Apellido\s+([^\r\n]+)
\* (\s+ is greedy and gives back its last character when the group would
\* otherwise be empty).
DestT2At(s, p) ==
    IF StartsAt(s, p, "Nombre y Apellido") /\ AllIn(s, p + 17, 1, Space)
    THEN LET ws == RunEnd(s, p + 17, Space)
             g  == IF LineEnd(s, ws) > ws THEN ws
                   ELSE IF ws - 1 > p + 17 /\ Char(s, ws - 1) \notin {"\r", "\n"}
                        THEN ws - 1 ELSE 0
         IN  IF g = 0 THEN NoMatch
             ELSE [end |-> LineEnd(s, g), groups |-> <<SubSeq(s, g, LineEnd(s, g) - 1)>>]
    ELSE NoMatch

\* outlook.py: CC_PAYMENT_DESTINATION = Nombre( y Apellido)?(.*?)\s?Rut
\* update_data.py's pattern of that name is DestRutAt below.
RutEnds(s, g) ==
    {q \in LazyEnds(s, g) :
        \/ AllIn(s, q, 1, Space) /\ StartsAt(s, q + 1, "Rut")
        \/ StartsAt(s, q, "Rut")}

OutlookDestAt(s, p) ==
    IF ~StartsAt(s, p, "Nombre") THEN NoMatch
    ELSE LET g1 == IF StartsAt(s, p + 6, " y Apellido") THEN p + 17 ELSE p + 6
             \* the optional group is given back when the rest cannot match
             g  == IF RutEnds(s, g1) /= {} THEN g1 ELSE p + 6
             o  == IF g = p + 6 THEN "" ELSE " y Apellido"
         IN  IF RutEnds(s, g) = {} THEN NoMatch
             ELSE LET q == MinOf(RutEnds(s, g))
                  IN  [end |-> IF StartsAt(s, q, "Rut") THEN q + 3 ELSE q + 4,
                       groups |-> <<o, SubSeq(s, g, q - 1)>>]

\* update_data.py: CC_PAYMENT_DESTINATION =
\*   Destino Nombre y Apellido (.*?) Rut (\d+\-\d)
DestRutAt(s, p) ==
    IF ~StartsAt(s, p, "Destino Nombre y Apellido ") THEN NoMatch
    ELSE LET ends == {q \in LazyEnds(s, p + 26) :
                         /\ StartsAt(s, q, " Rut ")
                         /\ RunEnd(s, q + 5, Digit) > q + 5
                         /\ StartsAt(s, RunEnd(s, q + 5, Digit), "-")
                         /\ AllIn(s, RunEnd(s, q + 5, Digit) + 1, 1, Digit)}
         IN  IF ends = {} THEN NoMatch
             ELSE LET q == MinOf(ends)
                      d == RunEnd(s, q + 5, Digit)
                  IN  [end |-> d + 2,
                       groups |-> <<SubSeq(s, p + 26, q - 1), SubSeq(s, q + 5, d + 1)>>]

\* update_data.py: CC_PAYMENT_SOURCE = (\d.*?) Destino
SourceAt(s, p) ==
    IF ~AllIn(s, p, 1, Digit) THEN NoMatch
    ELSE LET ends == {q \in LazyEnds(s, p + 1) : StartsAt(s, q, " Destino")}
         IN  IF ends = {} THEN NoMatch
             ELSE [end |-> MinOf(ends) + 8, groups |-> <<SubSeq(s, p, MinOf(ends) - 1)>>]

\* outlook.py: SENDER_RX =
\*   From:\s*([a-zA-Z0-9_.+-]+@[a-zA-Z0-9-]+\.[a-zA-Z0-9-.]+)|\<(.*?)\>
LocalCh == Digit \cup UpperAz \cup LowerAz \cup {"_", ".", "+", "-"}

LabelCh == Digit \cup UpperAz \cup LowerAz \cup {"-"}

DomainCh == Digit \cup UpperAz \cup LowerAz \cup {"-", "."}

SenderRxAt(s, p) ==
    LET a  == RunEnd(s, p + 5, Space)      \* after From:\s*
        at == RunEnd(s, a, LocalCh)        \* the '@'
        dt == RunEnd(s, at + 1, LabelCh)   \* the '.'
        e  == RunEnd(s, dt + 1, DomainCh)
        gt == {q \in LazyEnds(s, p + 1) : StartsAt(s, q, ">")}
    IN  IF /\ StartsAt(s, p, "From:")
           /\ at > a /\ StartsAt(s, at, "@")
           /\ dt > at + 1 /\ StartsAt(s, dt, ".")
           /\ e > dt + 1
        THEN [end |-> e, groups |-> <<SubSeq(s, a, e - 1), "">>]
        ELSE IF StartsAt(s, p, "<") /\ gt /= {}
        THEN [end |-> MinOf(gt) + 1, groups |-> <<"", SubSeq(s, p + 1, MinOf(gt) - 1)>>]
        ELSE NoMatch

\* gmail.py parse_sender: [\w\.-]+@[\w\.-]+\.\w{2,}
AddrCh == WordCh \cup {".", "-"}

ParseSenderAt(s, p) ==
    LET at   == RunEnd(s, p, AddrCh)          \* the '@'
        e    == RunEnd(s, at + 1, AddrCh)     \* after the run that follows it
        \* the greedy [\w\.-]+ gives characters back down to the last '.'
        \* that two word characters follow
        dots == {k \in (at + 2)..(e - 1) :
                    StartsAt(s, k, ".") /\ AllIn(s, k + 1, 2, WordCh)}
    IN  IF at > p /\ StartsAt(s, at, "@") /\ dots /= {}
        THEN [end |-> RunEnd(s, MaxOf(dots) + 1, WordCh),
              groups |-> <<SubSeq(s, p, RunEnd(s, MaxOf(dots) + 1, WordCh) - 1)>>]
        ELSE NoMatch

RECURSIVE Scan(_, _)
\* the match found, and the scan that goes on after it
ScanOn(m, match) == <<match.groups>> \o Scan(m, match.end)

\* re.findall from index p on, m[q] being the match that starts at q: the
\* groups of the matches left to right, none overlapping.
Scan(m, p) ==
    LET starts == {q \in DOMAIN m : q >= p /\ m[q].end /= 0}
    IN  IF starts = {} THEN <<>> ELSE ScanOn(m, m[MinOf(starts)])

\* MONEY.findall(s)
MONEY(s) == Scan([q \in 1..Len(s) |-> MoneyAt(s, q)], 1)

\* TC_TIMESTAMP.findall(s); one group, so findall gives strings: m[k][1]
TC_TIMESTAMP(s) == Scan([q \in 1..Len(s) |-> TimestampAt(s, q)], 1)

\* TC_REASON.findall(s)
TC_REASON(s) == Scan([q \in 1..Len(s) |-> ReasonAt(s, q)], 1)

\* gmail.py TC_PAYMENT_MONEY.findall(s)
TC_PAYMENT_MONEY(s) == Scan([q \in 1..Len(s) |-> GmailPaymentAt(s, q)], 1)

\* outlook.py, update_data.py TC_PAYMENT_MONEY.findall(s)
TC_PAYMENT_MONEY_MONTO(s) == Scan([q \in 1..Len(s) |-> MontoAt(s, q)], 1)

\* gmail.py TRANSFER_DEST_T1.findall(s)
TRANSFER_DEST_T1(s) == Scan([q \in 1..Len(s) |-> DestT1At(s, q)], 1)

\* gmail.py TRANSFER_DEST_T2.findall(s)
TRANSFER_DEST_T2(s) == Scan([q \in 1..Len(s) |-> DestT2At(s, q)], 1)

\* outlook.py CC_PAYMENT_DESTINATION.findall(s)
CC_PAYMENT_DESTINATION(s) == Scan([q \in 1..Len(s) |-> OutlookDestAt(s, q)], 1)

\* update_data.py CC_PAYMENT_DESTINATION.findall(s)
CC_PAYMENT_DESTINATION_RUT(s) == Scan([q \in 1..Len(s) |-> DestRutAt(s, q)], 1)

\* update_data.py CC_PAYMENT_SOURCE.findall(s)
CC_PAYMENT_SOURCE(s) == Scan([q \in 1..Len(s) |-> SourceAt(s, q)], 1)

\* outlook.py SENDER_RX.findall(s)
SENDER_RX(s) == Scan([q \in 1..Len(s) |-> SenderRxAt(s, q)], 1)

\* gmail.py parse_sender: re.search of the address pattern, as the matches
\* findall would give (the first is the one re.search finds)
SENDER_ADDRESS(s) == Scan([q \in 1..Len(s) |-> ParseSenderAt(s, q)], 1)

-----------------------------------------------------------------------------
(* Numbers and times *)

RECURSIVE replace(_, _, _)
\* str.replace(a, b) for a one-character a.
replace(s, a, b) ==
    IF s = "" THEN ""
    ELSE (IF Char(s, 1) = a THEN b ELSE Char(s, 1)) \o replace(Tail_(s, 2), a, b)

DigitPairs ==
    {<<"0", 0>>, <<"1", 1>>, <<"2", 2>>, <<"3", 3>>, <<"4", 4>>,
     <<"5", 5>>, <<"6", 6>>, <<"7", 7>>, <<"8", 8>>, <<"9", 9>>}

DigitVal(c) == (CHOOSE p \in DigitPairs : p[1] = c)[2]

RECURSIVE ToInt(_)
\* int() of a string of digits ("" gives 0).
ToInt(s) ==
    IF s = "" THEN 0
    ELSE 10 * ToInt(SubSeq(s, 1, Len(s) - 1)) + DigitVal(Char(s, Len(s)))

RECURSIVE StripZeros(_)
StripZeros(s) ==
    IF s /= "" /\ Char(s, Len(s)) = "0" THEN StripZeros(SubSeq(s, 1, Len(s) - 1)) ELSE s

\* A Python value of the 'amount' column: a float m / 10^e, or a str.
FloatVal(m, e) == [float |-> TRUE, m |-> m, e |-> e, text |-> ""]

StrVal(t) == [float |-> FALSE, m |-> 0, e |-> 0, text |-> t]

\* float(x) accepts x made of digits and '.' when it has one '.' at most and
\* a digit at least; anything else of [0-9.]* is a ValueError.
FloatOk(x) ==
    /\ AllIn(x, 1, Len(x), Digit \cup {"."})
    /\ Cardinality({k \in 1..Len(x) : Char(x, k) = "."}) <= 1
    /\ \E k \in 1..Len(x) : Char(x, k) \in Digit

\* float(x) for FloatOk(x): the value as mantissa and number of decimals.
float(x) ==
    LET dot  == {k \in 1..Len(x) : Char(x, k) = "."}
        int  == IF dot = {} THEN x ELSE SubSeq(x, 1, MinOf(dot) - 1)
        frac == IF dot = {} THEN "" ELSE StripZeros(Tail_(x, MinOf(dot) + 1))
    IN  FloatVal(ToInt(int \o frac), Len(frac))

\* raw.replace('.', '').replace(',', '.'), the argument float() is given
Normalized(raw_money) == replace(replace(raw_money, ".", ""), ",", ".")

\* An exception-or-value result of a step of the code.
Ok(v) == [exc |-> None, val |-> v]

Raise(e) == [exc |-> e, val |-> <<>>]

\* gmail.py clean_amount (and the same expression inline in the others)
clean_amount(raw_money) ==
    IF FloatOk(Normalized(raw_money)) THEN Ok(float(Normalized(raw_money)))
    ELSE Raise("ValueError")

\* A naive civil time.
Time(y, mo, d, h, mi) == [y |-> y, mo |-> mo, d |-> d, h |-> h, mi |-> mi]

NoTime == Time(0, 0, 0, 0, 0)

IsLeap(y) == (y % 4 = 0 /\ y % 100 /= 0) \/ y % 400 = 0

DaysIn(y, mo) ==
    IF mo = 2 THEN (IF IsLeap(y) THEN 29 ELSE 28)
    ELSE IF mo \in {4, 6, 9, 11} THEN 30 ELSE 31

\* pd.to_datetime(ts, format='%d/%m/%Y %H:%M') of a TC_TIMESTAMP match:
\* a ValueError for a date that does not exist (the years pandas cannot
\* represent are taken as whole years).
to_datetime(ts) ==
    LET d  == ToInt(SubSeq(ts, 1, 2))
        mo == ToInt(SubSeq(ts, 4, 5))
        y  == ToInt(SubSeq(ts, 7, 10))
        h  == ToInt(SubSeq(ts, 12, 13))
        mi == ToInt(SubSeq(ts, 15, 16))
    IN  IF /\ y \in 1678..2261 /\ mo \in 1..12 /\ d \in 1..DaysIn(y, mo)
           /\ h \in 0..23 /\ mi \in 0..59
        THEN Ok(Time(y, mo, d, h, mi))
        ELSE Raise("ValueError")

\* str.strip
strip(s) ==
    LET a == RunEnd(s, 1, Space)
    IN  IF a > Len(s) THEN "" ELSE SubSeq(s, a, RunStart(s, Len(s), Space) - 1)

RECURSIVE CollapseFrom(_, _)
\* re.sub(r'\s+', ' ', s[i:])
CollapseFrom(s, i) ==
    IF i > Len(s) THEN ""
    ELSE IF Char(s, i) \in Space THEN " " \o CollapseFrom(s, RunEnd(s, i, Space))
    ELSE LET ws == {q \in i..Len(s) : Char(s, q) \in Space}
             e  == IF ws = {} THEN Len(s) + 1 ELSE MinOf(ws)
         IN  SubSeq(s, i, e - 1) \o CollapseFrom(s, e)

collapse(s) == CollapseFrom(s, 1)

-----------------------------------------------------------------------------
(* Static configuration *)

\* config.py: the allow-list of notification senders (a list)
SENDER_EMAIL ==
    {"enviodigital@bancochile.cl",
     "serviciodetransferencias@bancochile.cl",
     "enviodigital@bancoedwards.cl"}

\* extract_and_upload_data/config.py: SENDER_EMAIL there is one string
UD_SENDER_EMAIL == "enviodigital@bancochile.cl"

\* config.py: the card-purchase subjects
TC_SUBJECTS ==
    {"Giro con Tarjeta de Débito",
     "Compra con Tarjeta de Crédito",
     "Cargo en Cuenta",
     "Avance con Tarjeta de Crédito"}

\* dict.get(key, default) on a record
Get(d, key, default) == IF key \in DOMAIN d THEN d[key] ELSE default

-----------------------------------------------------------------------------
(* gmail.py *)

\* A body's data: the base64 string, modelled by whether it is the empty
\* string, whether it decodes (base64, then utf-8), and the text
\* BeautifulSoup(..., 'lxml').text gives for it.
Data(t) == [empty |-> FALSE, decodes |-> TRUE, text |-> t]

EmptyData == [empty |-> TRUE, decodes |-> TRUE, text |-> ""]

BadData == [empty |-> FALSE, decodes |-> FALSE, text |-> ""]

\* A part of a payload: a record with the keys "mimeType", "body" (a record
\* that may have the key "data") and "parts" (a sequence of parts), each
\* of which may be missing.
PartHasData(part, mime) ==
    /\ Get(part, "mimeType", None) = mime
    /\ "data" \in DOMAIN Get(part, "body", [x \in {} |-> 0])

RECURSIVE get_body_data(_)
RECURSIVE SubPartsData(_, _)
\* _get_body_data: <<data>>, or <<>> for None
get_body_data(part) ==
    IF PartHasData(part, "text/html") THEN <<part.body.data>>
    ELSE IF PartHasData(part, "text/plain") THEN <<part.body.data>>
    ELSE IF "parts" \in DOMAIN part THEN SubPartsData(part.parts, 1)
    ELSE <<>>

\* `if body_data: return body_data` for the sub-part's body_data
FirstTruthy(parts, i, body_data) ==
    IF body_data /= <<>> /\ ~body_data[1].empty THEN body_data
    ELSE SubPartsData(parts, i + 1)

\* the loop over part["parts"]: the first sub-part whose data is truthy
SubPartsData(parts, i) ==
    IF i > Len(parts) THEN <<>> ELSE FirstTruthy(parts, i, get_body_data(parts[i]))

\* An exception-or-value result for the decoded data
Decoded(data) ==
    IF data = <<>> THEN Raise("TypeError")
    ELSE IF ~data[1].decodes THEN Raise("ValueError")
    ELSE Ok(data[1].text)

\* get_body_text: b64decode(None) is a TypeError, b64decode of data that is
\* not base64 a binascii.Error (a ValueError)
get_body_text(message) == Decoded(get_body_data(message.payload))

\* matches[0] for a pattern of one group: IndexError when there is no match
First(matches) == IF matches = <<>> THEN Raise("IndexError") ELSE Ok(matches[1][1])

\* match.group() if match else None
GroupOrNone(matches) == IF matches = <<>> THEN None ELSE matches[1][1]

\* parse_sender
parse_sender(header_dict) == GroupOrNone(SENDER_ADDRESS(Get(header_dict, "From", "")))

\* parse_transaction_time: a Date header is modelled by the UTC instant it
\* denotes; to_datetime(utc=True).tz_localize(None) is that instant, naive.
parse_transaction_time(date) == date

\* parse_transfer_destination
parse_transfer_destination(subject, content) ==
    IF startswith(subject, "Transferencias de Fondos a")
    THEN First(TRANSFER_DEST_T1(content))
    ELSE IF subject = "Transferencia a Terceros"
    THEN First(TRANSFER_DEST_T2(content))
    ELSE Ok(None)

\* What one iteration of an email_to_dataframe loop does: appends a row,
\* goes on to the next message, or lets an exception escape the function.
Emit(row) == [tag |-> "row", row |-> row, exc |-> None]

Continue == [tag |-> "continue", row |-> <<>>, exc |-> None]

Escape(e) == [tag |-> "raise", row |-> <<>>, exc |-> e]

\* a card purchase with no reason at all
no_payment_reason(why, subject) == None

\* payment_reason = TC_REASON.findall(content)[0], or the subject on IndexError
\* (gmail.py lines 333-336, outlook.py lines 215-218), why being the matches
tc_payment_reason(why, subject) == IF why = <<>> THEN subject ELSE why[1][1]

\* a currency that is CLP whatever the match
currency_clp(raw_money) == "CLP"

\* 'USD' if raw_money[0] == 'US' else 'CLP' for a MONEY match
currency_of(raw_money) == IF raw_money[1] = "US" THEN "USD" ELSE "CLP"

\* gmail.py lines 322-336: the card purchase branch, for the matches of
\* MONEY, TC_TIMESTAMP and TC_REASON in the content
GmailPurchase(subject, money, ts, why) ==
    IF money = <<>> THEN Raise("IndexError")
    ELSE IF ts = <<>> THEN Raise("IndexError")
    ELSE IF to_datetime(ts[1][1]).exc /= None THEN Raise("ValueError")
    ELSE Ok([currency |-> currency_of(money[1]),
             raw_money |-> money[1][2],
             transaction_type |-> subject,
             transaction_time_local |-> to_datetime(ts[1][1]).val,
             payment_reason |-> tc_payment_reason(why, subject),
             transfer_type |-> None,
             transfer_destination |-> None])

\* gmail.py lines 339-348: the transfer branch
GmailTransfer(money, header_dict, dest) ==
    IF money = <<>> THEN Raise("IndexError")
    ELSE IF "Date" \notin DOMAIN header_dict THEN Raise("KeyError")
    ELSE IF dest.exc /= None THEN Raise(dest.exc)
    ELSE Ok([currency |-> currency_of(money[1]),
             raw_money |-> money[1][2],
             transaction_type |-> "Transferencia",
             transaction_time_local |-> parse_transaction_time(header_dict.Date),
             payment_reason |-> None,
             transfer_type |-> "Transferencia a Terceros",
             transfer_destination |-> dest.val])

\* gmail.py lines 350-356: the card payment branch; raw_money is a str
\* there, so raw_money[0] is its first character
GmailPayment(subject, money, header_dict) ==
    IF money = <<>> THEN Raise("IndexError")
    \* raw_money[0] of the empty string
    ELSE IF money[1][3] = "" THEN Raise("IndexError")
    ELSE IF "Date" \notin DOMAIN header_dict THEN Raise("KeyError")
    ELSE Ok([currency |-> IF Char(money[1][3], 1) = "US" THEN "USD" ELSE "CLP",
             raw_money |-> money[1][3],
             transaction_type |-> "Pago de Tarjeta de Crédito",
             transaction_time_local |-> parse_transaction_time(header_dict.Date),
             payment_reason |-> None,
             transfer_type |-> subject,
             transfer_destination |-> None])

\* gmail.py lines 358-365: the international card payment branch
GmailPaymentInternational(subject, money, header_dict) ==
    IF money = <<>> THEN Raise("IndexError")
    ELSE IF "Date" \notin DOMAIN header_dict THEN Raise("KeyError")
    ELSE Ok([currency |-> "USD",
             raw_money |-> money[1][2],
             transaction_type |-> "Pago de Tarjeta de Crédito",
             transaction_time_local |-> parse_transaction_time(header_dict.Date),
             payment_reason |-> None,
             transfer_type |-> subject,
             transfer_destination |-> None])

\* gmail.py email_to_dataframe, lines 321-369: the shape branches.  The value
\* is the record of the locals they set; the else branch sets none of them.
GmailShape(subject, content, header_dict) ==
    IF subject \in TC_SUBJECTS
    THEN GmailPurchase(subject, MONEY(content), TC_TIMESTAMP(content), TC_REASON(content))
    ELSE IF /\ Contains(lower(subject), "transferencia")
            /\ ~Contains(lower(subject), "Transferencias de Fondos de")
    THEN GmailTransfer(MONEY(content), header_dict,
                       parse_transfer_destination(subject, content))
    ELSE IF subject = "Comprobante Pago Tarjeta"
    THEN GmailPayment(subject, TC_PAYMENT_MONEY(content), header_dict)
    ELSE IF subject = "Comprobante Pago Tarjeta Internacional"
    THEN GmailPaymentInternational(subject, TC_PAYMENT_MONEY(content), header_dict)
    ELSE Ok([transaction_type |-> None])

\* a skip test that looks at the subject only
GmailSkipsSubject(sender, subject) ==
    \/ subject = "Aviso de transferencia de fondos"
    \/ Contains(subject, "Transferencias de Fondos de")

\* The skip test of gmail.py lines 307-313.
GmailSkips(sender, subject) ==
    \/ sender \notin SENDER_EMAIL
    \/ subject = "Aviso de transferencia de fondos"
    \/ Contains(subject, "Transferencias de Fondos de")

\* gmail.py lines 371-387: the row, for the locals the shape branch set
GmailRow(message, sender, header_dict, content, shape) ==
    IF shape.exc /= None THEN Escape(shape.exc)
    ELSE IF shape.val.transaction_type = None THEN Continue
    ELSE IF clean_amount(shape.val.raw_money).exc /= None THEN Escape("ValueError")
    ELSE Emit([Id |-> message.id,
               mail_timestamp_utc |-> message.internalDate,
               transaction_timestamp_local |-> shape.val.transaction_time_local,
               sender |-> sender,
               currency |-> shape.val.currency,
               amount |-> clean_amount(shape.val.raw_money).val,
               transaction_type |-> shape.val.transaction_type,
               transferation_type |-> shape.val.transfer_type,
               transferation_destination |-> shape.val.transfer_destination,
               payment_reason |-> shape.val.payment_reason,
               content |-> strip(content),
               user_email |-> Get(header_dict, "To", None)])

\* gmail.py lines 315-387: from the body on, body being what get_body_text
\* gave or raised
GmailRead(message, sender, subject, header_dict, body) ==
    IF body.exc /= None THEN Escape(body.exc)
    ELSE GmailRow(message, sender, header_dict, body.val,
                  GmailShape(subject, body.val, header_dict))

\* gmail.py lines 300-313: the headers and the skip test
GmailHeaders(message, header_dict, sender, subject) ==
    IF GmailSkips(sender, subject) THEN Continue
    ELSE GmailRead(message, sender, subject, header_dict, get_body_text(message))

\* gmail.py email_to_dataframe: the body of the loop, for one message.
GmailMessage(message) ==
    GmailHeaders(message, message.payload.headers, parse_sender(message.payload.headers),
                 Get(message.payload.headers, "Subject", ""))

RECURSIVE Loop(_, _, _)
\* One iteration of a loop over the messages, step being what it does.
LoopStep(outcomes, i, rows, step) ==
    IF step.tag = "raise" THEN [exc |-> step.exc, rows |-> <<>>]
    ELSE Loop(outcomes, i + 1, IF step.tag = "row" THEN rows \o <<step.row>> ELSE rows)

\* The `for message in ...` loop of gmail.py, outlook.py and main.py, for the
\* outcomes of its iterations: the rows appended, or the exception that
\* escaped.
Loop(outcomes, i, rows) ==
    IF i \notin DOMAIN outcomes THEN [exc |-> None, rows |-> rows]
    ELSE LoopStep(outcomes, i, rows, outcomes[i])

\* df['content'].str.replace(r'\s+', ' ', regex=True)
CollapseContent(out) ==
    [exc |-> out.exc,
     rows |-> [k \in 1..Len(out.rows) |-> [out.rows[k] EXCEPT !.content = collapse(@)]]]

\* gmail.py email_to_dataframe: the loop, then the whitespace collapse of the
\* content column.  The value is the rows of the DataFrame returned, or the
\* exception that escaped.
gmail_email_to_dataframe(raw_emails) ==
    CollapseContent(Loop([k \in 1..Len(raw_emails) |-> GmailMessage(raw_emails[k])],
                         1, <<>>))

-----------------------------------------------------------------------------
(* outlook.py *)

\* a < b for civil times
Before(a, b) ==
    \/ a.y < b.y
    \/ a.y = b.y /\ a.mo < b.mo
    \/ a.y = b.y /\ a.mo = b.mo /\ a.d < b.d
    \/ a.y = b.y /\ a.mo = b.mo /\ a.d = b.d /\ a.h < b.h
    \/ a.y = b.y /\ a.mo = b.mo /\ a.d = b.d /\ a.h = b.h /\ a.mi < b.mi

\* 0 for a Sunday
DayOfWeek(y, mo, d) ==
    LET t  == <<0, 3, 2, 5, 0, 3, 5, 1, 4, 6, 2, 4>>
        yy == IF mo < 3 THEN y - 1 ELSE y
    IN  (yy + (yy \div 4) - (yy \div 100) + (yy \div 400) + t[mo] + d) % 7

FirstSunday(y, mo) == MinOf({d \in 1..7 : DayOfWeek(y, mo, d) = 0})

\* The UTC offset of America/Santiago at a UTC instant: -4 from the first
\* Sunday of April 03:00 UTC to the first Sunday of September 04:00 UTC,
\* -3 otherwise (the tz database's rule for 2023 and after).
SantiagoOffset(utc) ==
    IF /\ ~Before(utc, Time(utc.y, 4, FirstSunday(utc.y, 4), 3, 0))
       /\ Before(utc, Time(utc.y, 9, FirstSunday(utc.y, 9), 4, 0))
    THEN -4 ELSE -3

\* t moved back by k hours, 0 <= k <= 24
HoursBack(t, k) ==
    IF t.h - k >= 0 THEN [t EXCEPT !.h = @ - k]
    ELSE IF t.d > 1 THEN [t EXCEPT !.h = @ - k + 24, !.d = @ - 1]
    ELSE IF t.mo > 1
    THEN [t EXCEPT !.h = @ - k + 24, !.mo = @ - 1, !.d = DaysIn(t.y, t.mo - 1)]
    ELSE [t EXCEPT !.h = @ - k + 24, !.y = @ - 1, !.mo = 12, !.d = 31]

\* pd.to_datetime(x, utc=True).tz_convert('America/Santiago').tz_localize(None),
\* x modelled by the UTC instant it denotes
santiago_naive(utc) == HoursBack(utc, 0 - SantiagoOffset(utc))

\* get_auth_users()['email'].to_list(): the rows of auth.users, which the
\* pipeline only reads
AUTH_USERS == {"ana@outlook.com", "bob@hotmail.com"}

\* An HTML document is modelled by what BeautifulSoup finds in it: whether
\* it has a body element, and that element's text.
Html(t) == [bodyTag |-> TRUE, text |-> t]

NoBodyTag == [bodyTag |-> FALSE, text |-> ""]

\* outlook.py lines 205-218: the card purchase branch
OutlookPurchase(subject, money, ts, why) ==
    IF money = <<>> THEN Raise("IndexError")
    ELSE IF clean_amount(money[1][2]).exc /= None THEN Raise("ValueError")
    ELSE IF ts = <<>> THEN Raise("IndexError")
    ELSE IF to_datetime(ts[1][1]).exc /= None THEN Raise("ValueError")
    ELSE Ok([currency |-> currency_of(money[1]),
             amount |-> clean_amount(money[1][2]).val,
             transaction_type |-> subject,
             transaction_time_local |-> to_datetime(ts[1][1]).val,
             payment_reason |-> tc_payment_reason(why, subject),
             transferation_type |-> None,
             transferation_destination |-> None])

\* outlook.py lines 221-235: the transfer branch
OutlookTransfer(money, dest, message) ==
    IF money = <<>> THEN Raise("IndexError")
    ELSE IF clean_amount(money[1][2]).exc /= None THEN Raise("ValueError")
    ELSE IF "sentDateTime" \notin DOMAIN message THEN Raise("KeyError")
    ELSE Ok([currency |-> currency_of(money[1]),
             amount |-> clean_amount(money[1][2]).val,
             transaction_type |-> "Transferencia",
             transaction_time_local |-> santiago_naive(message.sentDateTime),
             payment_reason |-> None,
             transferation_type |-> "Transferencia a Terceros",
             transferation_destination |-> IF dest = <<>> THEN None ELSE dest[1][2]])

\* outlook.py lines 238-247: the card payment branch; the amount is the
\* matched text, not a float
OutlookPayment(subject, money, message) ==
    IF money = <<>> THEN Raise("IndexError")
    ELSE IF "sentDateTime" \notin DOMAIN message THEN Raise("KeyError")
    ELSE Ok([currency |-> "CLP",
             amount |-> StrVal(money[1][2]),
             transaction_type |-> "Pago de Tarjeta de Crédito",
             transaction_time_local |-> santiago_naive(message.sentDateTime),
             payment_reason |-> None,
             transferation_type |-> subject,
             transferation_destination |-> None])

\* outlook.py email_to_dataframe, lines 204-251: the shape branches, inside
\* the try.  The else branch sets no transaction_type and continues.
OutlookShape(subject, content, message) ==
    IF subject \in TC_SUBJECTS
    THEN OutlookPurchase(subject, MONEY(content), TC_TIMESTAMP(content), TC_REASON(content))
    ELSE IF Contains(lower(subject), "transferencia")
    THEN OutlookTransfer(MONEY(content), CC_PAYMENT_DESTINATION(content), message)
    ELSE IF subject \in {"Pago de Tarjeta de Crédito Nacional",
                         "Pago de Tarjeta de Crédito Internacional"}
    THEN OutlookPayment(subject, TC_PAYMENT_MONEY_MONTO(content), message)
    ELSE Ok([transaction_type |-> None])

\* outlook.py lines 189-190: the embedded sender, for the SENDER_RX matches
OutlookEmbedded(content, raw_sender) ==
    IF raw_sender = <<>> THEN Raise("IndexError")
    ELSE Ok([content |-> content,
             sender |-> IF raw_sender[1][1] = "" THEN raw_sender[1][2]
                        ELSE raw_sender[1][1]])

\* outlook.py lines 185-194: the body and the embedded sender.  Only a
\* KeyError is caught there (the message is then skipped).
OutlookSender(message) ==
    IF "body" \notin DOMAIN message \/ "content" \notin DOMAIN Get(message, "body", <<>>)
    THEN Raise("KeyError")
    ELSE IF ~message.body.content.bodyTag THEN Raise("AttributeError")
    ELSE OutlookEmbedded(message.body.content.text, SENDER_RX(message.body.content.text))

\* outlook.py lines 253-267: the row, for the locals the shape branch set
OutlookAssemble(message, sender, content, shape) ==
    IF shape.exc /= None THEN Raise(shape.exc)
    ELSE IF shape.val.transaction_type = None THEN Ok(<<>>)
    ELSE IF "receivedDateTime" \notin DOMAIN message THEN Raise("KeyError")
    ELSE IF "from" \notin DOMAIN message THEN Raise("KeyError")
    ELSE Ok(<<[Id |-> message.id,
               mail_timestamp_utc |-> message.receivedDateTime,
               transaction_timestamp_local |-> shape.val.transaction_time_local,
               sender |-> sender,
               currency |-> shape.val.currency,
               amount |-> shape.val.amount,
               transaction_type |-> shape.val.transaction_type,
               transferation_type |-> shape.val.transferation_type,
               transferation_destination |-> shape.val.transferation_destination,
               payment_reason |-> shape.val.payment_reason,
               content |-> content,
               user_email |-> message.from]>>)

\* outlook.py lines 196-271: the try block of an allow-listed sender; every
\* exception in it is caught and the message skipped.
OutlookRow(message, sender, content) ==
    IF "subject" \notin DOMAIN message THEN Raise("KeyError")
    ELSE OutlookAssemble(message, sender, content,
             \* message['subject'][4:]
             OutlookShape(Tail_(message.subject, 5), content, message))

\* outlook.py lines 196-271, row being what the try block gave or raised
OutlookTry(row) == IF row.exc /= None \/ row.val = <<>> THEN Continue ELSE Emit(row.val[1])

\* outlook.py lines 185-271, found being the body and the embedded sender
OutlookFound(message, found) ==
    IF found.exc = "KeyError" THEN Continue
    ELSE IF found.exc /= None THEN Escape(found.exc)
    ELSE IF found.val.sender \notin SENDER_EMAIL THEN Continue
    ELSE OutlookTry(OutlookRow(message, found.val.sender, found.val.content))

\* outlook.py email_to_dataframe: the body of the loop, for one message.
OutlookMessage(message, auth_users) ==
    IF "sender" \notin DOMAIN message THEN Escape("KeyError")
    ELSE IF message.sender \notin auth_users THEN Continue
    ELSE OutlookFound(message, OutlookSender(message))

\* outlook.py email_to_dataframe
outlook_email_to_dataframe(raw_emails) ==
    Loop([k \in 1..Len(raw_emails) |-> OutlookMessage(raw_emails[k], AUTH_USERS)], 1, <<>>)

-----------------------------------------------------------------------------
(* extract_and_upload_data/update_data.py *)

\* update_data.py lines 159-167: the branch of the card notifications
UpdateDataPurchase(raw_money, ts, why) ==
    IF ts = <<>> THEN Raise("IndexError")
    ELSE IF to_datetime(ts[1][1]).exc /= None THEN Raise("ValueError")
    ELSE IF why = <<>> THEN Raise("IndexError")
    ELSE Ok([raw_money |-> raw_money,
             transaction_type |-> "Pago con TC",
             transaction_time_local |-> to_datetime(ts[1][1]).val,
             payment_reason |-> why[1][1],
             transferation_type |-> None,
             transferation_source |-> None,
             transferation_destination |-> None])

\* update_data.py lines 169-183: the branch of the transfer notifications
UpdateDataTransfer(raw_money, message, monto, source, dest) ==
    IF "sentDateTime" \notin DOMAIN message THEN Raise("KeyError")
    ELSE IF "subject" \notin DOMAIN message THEN Raise("KeyError")
    ELSE IF /\ message.subject \in {"Pago de Tarjeta de Crédito Internacional",
                                    "Pago de Tarjeta de Crédito Nacional"}
            /\ monto = <<>>
    THEN Raise("IndexError")
    ELSE IF source = <<>> THEN Raise("IndexError")
    ELSE Ok([raw_money |-> IF message.subject \in
                                  {"Pago de Tarjeta de Crédito Internacional",
                                   "Pago de Tarjeta de Crédito Nacional"}
                           THEN monto[1] ELSE raw_money,
             transaction_type |-> "Transferencia",
             transaction_time_local |-> santiago_naive(message.sentDateTime),
             payment_reason |-> None,
             transferation_type |-> message.subject,
             transferation_source |-> source[1][1],
             transferation_destination |-> IF dest = <<>> THEN None ELSE dest[1][1]])

\* update_data.py email_to_dataframe, lines 159-186: the branches on the
\* sender, inside the try; raw_money is the first MONEY match.
UpdateDataShape(sender, content, message, raw_money) ==
    IF sender = "enviodigital@bancochile.cl"
    THEN UpdateDataPurchase(raw_money, TC_TIMESTAMP(content), TC_REASON(content))
    ELSE IF sender = "serviciodetransferencias@bancochile.cl"
    THEN UpdateDataTransfer(raw_money, message, TC_PAYMENT_MONEY_MONTO(content),
                            CC_PAYMENT_SOURCE(content), CC_PAYMENT_DESTINATION_RUT(content))
    ELSE Raise("ValueError")

\* update_data.py lines 188-201: what the row literal raises, if anything
UpdateDataRowExc(message, shape) ==
    IF shape.exc /= None THEN shape.exc
    ELSE IF "receivedDateTime" \notin DOMAIN message THEN "KeyError"
    ELSE IF clean_amount(shape.val.raw_money[2]).exc /= None THEN "ValueError"
    ELSE IF "toRecipients" \notin DOMAIN message THEN "KeyError"
    ELSE IF message.toRecipients = <<>> THEN "IndexError"
    ELSE None

\* update_data.py lines 159-202, once raw_money is assigned
UpdateDataRow(message, sender, content, shape, exc) ==
    IF exc /= None THEN [exc |-> exc, row |-> <<>>, bound |-> TRUE]
    ELSE [exc |-> None, bound |-> TRUE, row |->
             <<[Id |-> message.id,
                mail_timestamp_utc |-> message.receivedDateTime,
                transaction_timestamp_local |-> shape.val.transaction_time_local,
                sender |-> sender,
                currency |-> currency_of(shape.val.raw_money),
                amount |-> clean_amount(shape.val.raw_money[2]).val,
                transaction_type |-> shape.val.transaction_type,
                transferation_type |-> shape.val.transferation_type,
                transferation_source |-> shape.val.transferation_source,
                transferation_destination |-> shape.val.transferation_destination,
                payment_reason |-> shape.val.payment_reason,
                content |-> content,
                user_email |-> message.toRecipients[1]]>>]

\* update_data.py lines 157-202, shape being what the branches gave
UpdateDataShaped(message, sender, content, shape) ==
    UpdateDataRow(message, sender, content, shape, UpdateDataRowExc(message, shape))

\* update_data.py lines 157-202, money being the MONEY matches
UpdateDataMoney(message, sender, content, money, bound) ==
    IF money = <<>> THEN [exc |-> "IndexError", row |-> <<>>, bound |-> bound]
    ELSE UpdateDataShaped(message, sender, content,
                          UpdateDataShape(sender, content, message, money[1]))

\* update_data.py lines 153-203: the try block.  The value carries `bound`,
\* whether the local raw_money has been assigned when the block is left.
UpdateDataTry(message, sender, bound) ==
    IF "body" \notin DOMAIN message \/ "content" \notin DOMAIN Get(message, "body", <<>>)
    THEN [exc |-> "KeyError", row |-> <<>>, bound |-> bound]
    ELSE IF ~message.body.content.bodyTag
    THEN [exc |-> "AttributeError", row |-> <<>>, bound |-> bound]
    ELSE UpdateDataMoney(message, sender, message.body.content.text,
                         MONEY(message.body.content.text), bound)

\* `sender in SENDER_EMAIL` of update_data.py line 152: SENDER_EMAIL is a
\* str there, so `in` is the substring test.
UpdateDataAllowed(sender) == Contains(UD_SENDER_EMAIL, sender)

\* update_data.py lines 204-207: the except clause prints raw_money before
\* it continues: an UnboundLocalError when no message of the batch has had
\* a MONEY match yet.
UpdateDataExcept(try) ==
    IF try.exc = None THEN Emit(try.row[1]) @@ [bound |-> try.bound]
    ELSE IF ~try.bound THEN Escape("UnboundLocalError") @@ [bound |-> FALSE]
    ELSE Continue @@ [bound |-> TRUE]

\* update_data.py email_to_dataframe: the body of the loop, for one message.
UpdateDataMessage(message, bound) ==
    IF "sender" \notin DOMAIN message THEN Escape("KeyError") @@ [bound |-> bound]
    ELSE IF ~UpdateDataAllowed(message.sender) THEN Continue @@ [bound |-> bound]
    ELSE UpdateDataExcept(UpdateDataTry(message, message.sender, bound))

RECURSIVE UpdateDataLoop(_, _, _, _)
UpdateDataStep(raw_emails, i, rows, step) ==
    IF step.tag = "raise" THEN [exc |-> step.exc, rows |-> <<>>]
    ELSE UpdateDataLoop(raw_emails, i + 1,
                        IF step.tag = "row" THEN rows \o <<step.row>> ELSE rows,
                        step.bound)

\* the loop of update_data.py, `bound` carried from a message to the next
UpdateDataLoop(raw_emails, i, rows, bound) ==
    IF i > Len(raw_emails) THEN [exc |-> None, rows |-> rows]
    ELSE UpdateDataStep(raw_emails, i, rows, UpdateDataMessage(raw_emails[i], bound))

\* update_data.py email_to_dataframe
update_data_email_to_dataframe(raw_emails) == UpdateDataLoop(raw_emails, 1, <<>>, FALSE)

-----------------------------------------------------------------------------
(* main.py *)

\* main.py: the reason -> category table
REASON_MAP ==
    {<<"PAYU *UBER TRIP SANTIAGO CHL", "Transporte">>,
     <<"AWTO AWTO CHILE LAS CONDES CL", "Transporte">>,
     <<"AILIME LTDA SANTIAGO CHL", "Transporte">>,
     <<"UBER LAS CONDES CHL", "Transporte">>,
     <<"MERCADOPAGO *CABIFY25 Las Condes CHL", "Transporte">>,
     <<"DLOCAL *AWTO SANTIAGO CL", "Transporte">>,
     <<"LIME*VIAJE ODVY +18885463345 USA", "Transporte">>,
     <<"DLOCAL *UBER RIDES SANTIAGO CHL", "Transporte">>,
     <<"MERCADOPAGO *CABIFYCH Las Condes CHL", "Transporte">>,
     <<"LIME*2 VIAJES ODVY +18885463345 USA", "Transporte">>,
     <<"UBER RIDES UBER RIDES LAS CONDES CHL", "Transporte">>,
     <<"LIME*PAGO ODVY +18885463345 US", "Transporte">>,
     <<"LIME*3 VIAJES ODVY +18885463345 USA", "Transporte">>,
     <<"PAYU *UBER EATS SANTIAGO CHL", "Comida - Delivery">>,
     <<"HELADERIA LAUSINA SANTIAGO CHL", "Comida - Restaurantes">>,
     <<"NIU SUSHI - ELIECER PA SANTIAGO CHL", "Comida - Restaurantes">>,
     <<"EL TOLDO AZUL SANTIAGO CHL", "Comida - Restaurantes">>,
     <<"LA BURGUESIA SANTIAGO CHL", "Comida - Restaurantes">>,
     <<"NIU SUSHI SANTIAGO CHL", "Comida - Restaurantes">>,
     <<"PAN LEON MUT SPA SANTIAGO CHL", "Comida - Restaurantes">>,
     <<"MP *TANTA SPA SANTIAGO CHL", "Comida - Restaurantes">>,
     <<"MC DONALDS COSTANERA C SANTIAGO CHL", "Comida - Restaurantes">>,
     <<"SOCIEDAD GASTRONOMICA DAISANTIAGO CL", "Comida - Restaurantes">>,
     <<"GASTRONOMIA ZHENG CH SANTIAGO CHL", "Comida - Restaurantes">>,
     <<"TUU*bibimpop SANTIAGO CHL", "Comida - Restaurantes">>,
     <<"CARLS JR SANTIAGO CHL", "Comida - Restaurantes">>,
     <<"RESTAURANT OPORTO SANTIAGO CHL", "Comida - Restaurantes">>,
     <<"TANTA/MUU/CANTINA W SANTIAGO CHL", "Comida - Restaurantes">>,
     <<"RIENDA MUT SPA SANTIAGO CHL", "Comida - Restaurantes">>,
     <<"MERPAGO*SICILY OGGI Q VITACURA CHL", "Comida - Restaurantes">>,
     <<"CRUDO SIN CENSURA MUT LAS CONDES CHL", "Comida - Restaurantes">>,
     <<"OKM SUECIA SANTIAGO CHL", "Comida - Minimarket">>,
     <<"OKM CARMEN SYLVA SANTIAGO CHL", "Comida - Minimarket">>,
     <<"EXPRESS TOBALABA SANTIAGO CHL", "Comida - Minimarket">>,
     <<"EXPRESS PLAZA LYON SANTIAGO CHL", "Comida - Minimarket">>,
     <<"OKM SUECIA SANTIAGO CL", "Comida - Minimarket">>,
     <<"ISIDORA SANTIAGO CHL", "Comida - Minimarket">>,
     <<"SUECIA SANTIAGO CHL", "Comida - Minimarket">>,
     <<"SPID MUT - O871 SANTIAGO CHL", "Comida - Minimarket">>,
     <<"SOCIEDAD GASTRONOMICA SANTIAGO CHL", "Comida - Minimarket">>,
     <<"SERVICIOS Y COMERCIAL LAS CONDES CHL ", "Comida - Minimarket">>,
     <<"MERCADOPAGO *MIMARKET Las Condes CHL", "Comida - Minimarket">>,
     <<"SPID PRESIDENTE RIESCO SANTIAGO CHL", "Comida - Minimarket">>,
     <<"VECINAL SANTIAGO CHL", "Comida - Minimarket">>,
     <<"COURSRA*3I5RRV3WAT9VSM MOUNTAIN VIEWUS", "Educacion">>,
     <<"CRUNCHYROLL LAS CONDES CHL", "Subscripciones">>,
     <<"Smart Fit Chile 551138789999 CL", "Subscripciones">>,
     <<"NETFLIX.COM 866-579-7172 USA", "Subscripciones">>,
     <<"CANDELARIA SANTIAGO CHL", "Entretenimiento">>,
     <<"STEAMGAMES.COM 4259522 BELLEVUE USA", "Entretenimiento">>,
     <<"LOS TRONCOS SANTIAGO CHL", "Entretenimiento">>,
     <<"CINEPLANET WEBPAY SANTIAGO CHL", "Entretenimiento">>,
     <<"CINEPLANET COSTANERA SANTIAGO CHL", "Entretenimiento">>,
     <<"Jagex Payment CAMBRIDGE GBR", "Entretenimiento">>,
     <<"JUMBO COSTANERA CENTER SANTIAGO CHL", "Supermercado">>,
     <<"CHINA HOUSE MARKET SANTIAGO CHL", "Supermercado">>,
     <<"UNIMARC SANTA MARIA SANTIAGO CHL", "Supermercado">>,
     <<"PARIS COSTANERA CENTER SANTIAGO CHL", "Supermercado">>}

\* a default category that is a label
OTHER_CATEGORY == "Otros"

\* main.py: DEFAULT_CATEGORY = None
DEFAULT_CATEGORY == None

\* REASON_MAP.get(x, DEFAULT_CATEGORY)
reason_map_get(x) ==
    IF \E kv \in REASON_MAP : kv[1] = x
    THEN (CHOOSE kv \in REASON_MAP : kv[1] = x)[2]
    ELSE DEFAULT_CATEGORY

\* main.py categorize_transactions: the 'category' column is computed from
\* the 'reason' column alone; a frame without that column is a KeyError.
categorize_transactions(rows) ==
    IF \E k \in 1..Len(rows) : "reason" \notin DOMAIN rows[k] THEN Raise("KeyError")
    ELSE Ok([k \in 1..Len(rows) |->
                rows[k] @@ [category |-> reason_map_get(rows[k].reason)]])

\* main.py lines 147-160: the try block, for the matches of MONEY_RX,
\* TIMESTAMP_RX and REASON_RX in the body; IndexError (and AttributeError)
\* are caught and the message skipped, a ValueError is not.
MainRow(message, body, money, ts, why) ==
    IF money = <<>> \/ ts = <<>> THEN Continue
    ELSE IF clean_amount(money[1][2]).exc /= None THEN Escape("ValueError")
    ELSE IF why = <<>> THEN Continue
    ELSE Emit([Id |-> message.object_id,
               mail_timestamp_utc |-> message.received,
               transaction_timestamp_local |-> ts[1][1],
               sender |-> message.sender,
               currency |-> currency_of(money[1]),
               amount |-> clean_amount(money[1][2]).val,
               reason |-> why[1][1],
               content |-> body])

\* main.py fetch_emails: the body of the loop, for one message
MainMessage(message) ==
    IF message.sender /= "enviodigital@bancochile.cl" THEN Continue
    ELSE MainRow(message, message.body_text, MONEY(message.body_text),
                 TC_TIMESTAMP(message.body_text), TC_REASON(message.body_text))

\* main.py line 165: the conversion of the transaction_timestamp_local
\* column: a KeyError when the frame has no rows (and so no columns), a
\* ValueError for a date that does not exist.
MainTimes(out) ==
    IF out.exc /= None THEN out
    ELSE IF out.rows = <<>> THEN [exc |-> "KeyError", rows |-> <<>>]
    ELSE IF \E k \in 1..Len(out.rows) :
                to_datetime(out.rows[k].transaction_timestamp_local).exc /= None
    THEN [exc |-> "ValueError", rows |-> <<>>]
    ELSE [exc |-> None,
          rows |-> [k \in 1..Len(out.rows) |->
              [out.rows[k] EXCEPT !.transaction_timestamp_local = to_datetime(@).val]]]

\* main.py fetch_emails, messages being what inbox.get_messages yields
fetch_emails(messages) ==
    MainTimes(Loop([k \in 1..Len(messages) |-> MainMessage(messages[k])], 1, <<>>))

-----------------------------------------------------------------------------
(* The messages the mail-fetch collaborators hand over.  Texts are what    *)
(* the bank's notifications look like once reduced to text.                *)

T_PURCHASE ==
    "Compra por $12.500 con Tarjeta ****1234 en UBER LAS CONDES CHL el 15/03/2024 14:32."

T_PURCHASE_USD == "Compra  por US$25,90\nel 15/03/2024 14:32"

T_PURCHASE_SHOP ==
    "Compra por $3.990 con Tarjeta ****1234 en KIOSKO EL PASO CHL el 16/03/2024 09:05."

T_PURCHASE_CENTS ==
    "Compra por $12.345,67 con Tarjeta ****1234 en JUMBO el 17/03/2024 20:15. Cupo $1.000"

\* a purchase whose text is wrapped inside the timestamp
T_PURCHASE_WRAPPED ==
    "Compra por $7.000 con Tarjeta ****1234 en CAFE ALTURA el 18/03/2024\n 08:10."

T_NO_MONEY == "Su estado de cuenta ya esta disponible."

T_NO_TIME == "Compra por $5.000 con Tarjeta ****1234"

T_TRANSFER ==
    "Transferencia de fondos a Juan Perez por $30.000 Nombre y Apellido Juan Perez Rut 12345678-9"

T_TRANSFER_ANON == "Transferencia realizada por $30.000"

T_PAYMENT == "Comprobante de pago Monto $150.000 equivalente a USD 120,50"

T_PAYMENT_USD == "Pago por USD 120,50 Monto $98.000"

\* a text as it arrives through the forwarding mailbox
Forwarded(from, t) == "From: " \o from \o " Sent: viernes " \o t

BANK == "Banco de Chile <enviodigital@bancochile.cl>"

SHOP == "Tienda <promo@tienda.com>"

SENT == Time(2024, 3, 15, 17, 32)

Headers(from, to, subject) ==
    [From |-> from, To |-> to, Subject |-> subject, Date |-> SENT]

\* a Gmail payload whose HTML part carries `data`
HtmlPayload(headers, data) ==
    [headers |-> headers, mimeType |-> "multipart/alternative", body |-> [size |-> 0],
     parts |-> <<[mimeType |-> "text/html", body |-> [size |-> 1, data |-> data]]>>]

\* a Gmail payload none of whose parts carries data
EmptyPayload(headers) ==
    [headers |-> headers, mimeType |-> "multipart/mixed", body |-> [size |-> 0],
     parts |-> <<[mimeType |-> "application/pdf", body |-> [attachmentId |-> "a1"]]>>]

\* a Gmail multipart/alternative payload: a text/plain and a text/html part,
\* siblings, in the given order
Alternative(headers, first, second) ==
    [headers |-> headers, mimeType |-> "multipart/alternative", body |-> [size |-> 0],
     parts |-> <<[mimeType |-> first.mime, body |-> [size |-> 1, data |-> Data(first.text)]],
                 [mimeType |-> second.mime, body |-> [size |-> 1, data |-> Data(second.text)]]>>]

GmailAlternative(from, to, subject, first, second) ==
    [internalDate |-> SENT, payload |-> Alternative(Headers(from, to, subject), first, second)]

PLAIN_PART == [mime |-> "text/plain", text |-> T_PURCHASE_SHOP]

HTML_PART == [mime |-> "text/html", text |-> T_PURCHASE]

Gmail(from, to, subject, t) ==
    [internalDate |-> SENT, payload |-> HtmlPayload(Headers(from, to, subject), Data(t))]

GmailNoBody(from, to, subject) ==
    [internalDate |-> SENT, payload |-> EmptyPayload(Headers(from, to, subject))]

Graph(sender, from, subject, doc) ==
    [sender |-> sender, from |-> from, toRecipients |-> <<from>>, subject |-> subject,
     body |-> [contentType |-> "html", content |-> doc],
     sentDateTime |-> SENT, receivedDateTime |-> SENT]

GraphNoBody(sender, from, subject) ==
    [sender |-> sender, from |-> from, toRecipients |-> <<from>>, subject |-> subject,
     sentDateTime |-> SENT, receivedDateTime |-> SENT]

O365(sender, t) == [sender |-> sender, body_text |-> t, received |-> SENT]

ANA == "ana@gmail.com"

\* Gmail messages: every branch of gmail.py's loop, and each way it fails.
GmailKinds ==
    {Gmail(BANK, ANA, "Compra con Tarjeta de Crédito", T_PURCHASE),
     Gmail(BANK, ANA, "Compra con Tarjeta de Crédito", T_PURCHASE_USD),
     Gmail(BANK, ANA, "Avance con Tarjeta de Crédito", T_PURCHASE_CENTS),
     Gmail(BANK, ANA, "Compra con Tarjeta de Crédito", T_PURCHASE_WRAPPED),
     Gmail(BANK, ANA, "Compra con Tarjeta de Crédito", T_NO_MONEY),
     Gmail(BANK, ANA, "Cargo en Cuenta", T_NO_TIME),
     Gmail(BANK, ANA, "Transferencia a Terceros", T_TRANSFER),
     Gmail(BANK, ANA, "Transferencia a Terceros", T_TRANSFER_ANON),
     Gmail("serviciodetransferencias@bancochile.cl", ANA,
           "Transferencias de Fondos a Terceros", T_TRANSFER),
     Gmail(BANK, ANA, "Comprobante Pago Tarjeta", T_PAYMENT),
     Gmail(BANK, ANA, "Comprobante Pago Tarjeta", T_PAYMENT_USD),
     Gmail(BANK, ANA, "Comprobante Pago Tarjeta Internacional", T_PAYMENT_USD),
     Gmail(BANK, ANA, "Tu cartola mensual", T_NO_MONEY),
     Gmail(BANK, ANA, "Aviso de transferencia de fondos", T_TRANSFER),
     Gmail(BANK, ANA, "Transferencias de Fondos de Terceros", T_TRANSFER),
     Gmail(SHOP, ANA, "Compra con Tarjeta de Crédito", T_PURCHASE),
     GmailAlternative(BANK, ANA, "Compra con Tarjeta de Crédito", PLAIN_PART, HTML_PART),
     GmailAlternative(BANK, ANA, "Compra con Tarjeta de Crédito", HTML_PART, PLAIN_PART),
     GmailNoBody(BANK, ANA, "Compra con Tarjeta de Crédito"),
     GmailNoBody(BANK, ANA, "Tu cartola mensual"),
     GmailNoBody(SHOP, ANA, "Ofertas de la semana")}

USER == "ana@outlook.com"

\* Graph messages of the forwarding mailbox (outlook.py)
OutlookKinds ==
    {Graph(USER, USER, "Fw: Compra con Tarjeta de Crédito", Html(Forwarded(BANK, T_PURCHASE))),
     Graph(USER, USER, "FW: Compra con Tarjeta de Crédito",
           Html(Forwarded(BANK, T_PURCHASE_USD))),
     Graph(USER, USER, "Fw: Avance con Tarjeta de Crédito",
           Html(Forwarded(BANK, T_PURCHASE_CENTS))),
     Graph(USER, USER, "Fw: Compra con Tarjeta de Crédito", Html(Forwarded(BANK, T_NO_MONEY))),
     Graph(USER, USER, "Fw: Cargo en Cuenta", Html(Forwarded(BANK, T_NO_TIME))),
     Graph(USER, USER, "Fw: Transferencia a Terceros", Html(Forwarded(BANK, T_TRANSFER))),
     Graph(USER, USER, "Fw: Transferencia a Terceros",
           Html(Forwarded(BANK, T_TRANSFER_ANON))),
     Graph(USER, USER, "Fw: Transferencias de Fondos de Terceros",
           Html(Forwarded(BANK, T_TRANSFER))),
     Graph(USER, USER, "Fw: Pago de Tarjeta de Crédito Nacional",
           Html(Forwarded(BANK, T_PAYMENT))),
     Graph(USER, USER, "Fw: Pago de Tarjeta de Crédito Internacional",
           Html(Forwarded(BANK, T_PAYMENT_USD))),
     Graph(USER, USER, "Fw: Tu cartola mensual", Html(Forwarded(BANK, T_NO_MONEY))),
     Graph(USER, USER, "Compra con Tarjeta de Crédito", Html(Forwarded(BANK, T_PURCHASE))),
     Graph(USER, USER, "Fw: Compra con Tarjeta de Crédito", Html(Forwarded(SHOP, T_PURCHASE))),
     Graph(USER, USER, "Fw: Ofertas de la semana", Html(T_NO_MONEY)),
     Graph(USER, USER, "Fw: Compra con Tarjeta de Crédito", NoBodyTag),
     Graph("eve@example.com", "eve@example.com", "Fw: Compra con Tarjeta de Crédito",
           Html(Forwarded(BANK, T_PURCHASE))),
     GraphNoBody(USER, USER, "Fw: Compra con Tarjeta de Crédito")}

\* Graph messages of the bank's own mail (update_data.py)
UpdateDataKinds ==
    {Graph("enviodigital@bancochile.cl", USER, "Compra con Tarjeta de Crédito",
           Html(T_PURCHASE)),
     Graph("enviodigital@bancochile.cl", USER, "Compra con Tarjeta de Crédito",
           Html(T_PURCHASE_USD)),
     Graph("enviodigital@bancochile.cl", USER, "Compra con Tarjeta de Crédito",
           Html(T_NO_MONEY)),
     Graph("enviodigital@bancochile.cl", USER, "Cargo en Cuenta", Html(T_NO_TIME)),
     Graph("enviodigital@bancochile.cl", USER, "Compra con Tarjeta de Crédito", NoBodyTag),
     GraphNoBody("enviodigital@bancochile.cl", USER, "Compra con Tarjeta de Crédito"),
     Graph("serviciodetransferencias@bancochile.cl", USER, "Transferencia a Terceros",
           Html(T_TRANSFER)),
     Graph("digital@bancochile.cl", USER, "Compra con Tarjeta de Crédito", Html(T_PURCHASE)),
     Graph("digital@bancochile.cl", USER, "Aviso", Html(T_NO_MONEY)),
     Graph("promo@tienda.com", USER, "Ofertas de la semana", Html(T_NO_MONEY))}

\* O365 messages (main.py)
MainKinds ==
    {O365("enviodigital@bancochile.cl", T_PURCHASE),
     O365("enviodigital@bancochile.cl", T_PURCHASE_SHOP),
     O365("enviodigital@bancochile.cl", T_PURCHASE_USD),
     O365("enviodigital@bancochile.cl", T_NO_MONEY),
     O365("promo@tienda.com", T_PURCHASE)}

\* The longest batch a fetch returns.
MaxBatch == 2

IDS == <<"m1", "m2", "m3", "m4">>

\* the name of a message's id key, per provider
IdKey(s) == IF s = "main" THEN "object_id" ELSE "id"

\* The batches of up to MaxBatch messages of `kinds`, the k-th with id IDS[k].
Batches(kinds, key) ==
    UNION {{[k \in 1..n |-> b[k] @@ (key :> IDS[k])] : b \in [1..n -> kinds]} :
           n \in 1..MaxBatch}

-----------------------------------------------------------------------------
(* The store and the update pipelines *)

\* The mailboxes of the pipeline runs, newest message first: the same
\* message id can reach two owners, and a To header need not be the bare
\* address of the account read.
GmailInbox ==
    <<Gmail(BANK, "ana@gmail.com", "Compra con Tarjeta de Crédito", T_PURCHASE)
          @@ [id |-> "m1"],
      Gmail(BANK, "Ana <ana@gmail.com>", "Comprobante Pago Tarjeta", T_PAYMENT)
          @@ [id |-> "m2"],
      Gmail(BANK, "bob@gmail.com", "Transferencia a Terceros", T_TRANSFER)
          @@ [id |-> "m1"]>>

OutlookInbox ==
    <<Graph("ana@outlook.com", "ana@outlook.com", "Fw: Compra con Tarjeta de Crédito",
            Html(Forwarded(BANK, T_PURCHASE))) @@ [id |-> "m1"],
      Graph("ana@outlook.com", "ana@outlook.com", "Fw: Pago de Tarjeta de Crédito Nacional",
            Html(Forwarded(BANK, T_PAYMENT))) @@ [id |-> "m2"],
      Graph("bob@hotmail.com", "bob@hotmail.com", "Fw: Transferencia a Terceros",
            Html(Forwarded(BANK, T_TRANSFER))) @@ [id |-> "m1"]>>

UpdateDataInbox ==
    <<Graph("enviodigital@bancochile.cl", "ana@outlook.com", "Compra con Tarjeta de Crédito",
            Html(T_PURCHASE)) @@ [id |-> "m1"],
      Graph("enviodigital@bancochile.cl", "bob@hotmail.com", "Compra con Tarjeta de Crédito",
            Html(T_PURCHASE_SHOP)) @@ [id |-> "m1"],
      Graph("promo@tienda.com", "ana@outlook.com", "Ofertas de la semana",
            Html(T_NO_MONEY)) @@ [id |-> "m2"]>>

MainInbox ==
    <<O365("enviodigital@bancochile.cl", T_PURCHASE) @@ [object_id |-> "m1"],
      O365("enviodigital@bancochile.cl", T_PURCHASE_SHOP) @@ [object_id |-> "m2"],
      O365("promo@tienda.com", T_PURCHASE) @@ [object_id |-> "m3"]>>

\* the accounts gmail_update is called for
GmailUsers == {"ana@gmail.com", "bob@gmail.com"}

\* The number of pipeline runs of a behaviour.
MaxRuns == 2

\* the messages of inbox at the indices of S, in the inbox's order
Selected(inbox, S) ==
    [j \in 1..Cardinality(S) |->
        inbox[CHOOSE i \in S : Cardinality({h \in S : h <= i}) = j]]

\* what a fetch can return: some messages of the inbox (none, when there
\* are none to return), in the inbox's order
Fetched(inbox) == {Selected(inbox, S) : S \in SUBSET (1..Len(inbox))}

\* a column of a row; None where the row has no such column
Col(row, name) == IF name \in DOMAIN row THEN row[name] ELSE None

RECURSIVE Column(_, _)
\* frame[name] as a sequence
Column(frame, name) ==
    IF frame = <<>> THEN <<>> ELSE <<Col(frame[1], name)>> \o Column(Tail(frame), name)

RECURSIVE Where(_, _, _)
\* SELECT * FROM table WHERE name = value
Where(table, name, value) ==
    IF table = <<>> THEN <<>>
    ELSE (IF Col(table[1], name) = value THEN <<table[1]>> ELSE <<>>)
             \o Where(Tail(table), name, value)

\* fetch_supabase_data, when the read succeeds: the Id column of the rows
\* read.  gmail.py reads the rows WHERE user_email = '{user_email}'; outlook.py,
\* update_data.py and main.py read the Id of every row of the table.
fetch_supabase_data(s, owner, table) ==
    IF s = "gmail" THEN Column(Where(table, "user_email", owner), "Id")
    ELSE Column(table, "Id")

\* a membership test that finds no value
isin_never(x, values) == FALSE

\* Series.isin for one value: exact equality with one of the values
isin(x, values) == \E k \in 1..Len(values) : values[k] = x

\* is_new = ~transactions_df['Id'].isin(previous_dataframe['Id'])
is_new(transactions_df, previous_ids) ==
    [k \in 1..Len(transactions_df) |-> ~isin(transactions_df[k].Id, previous_ids)]

RECURSIVE loc(_, _)
\* transactions_df.loc[mask]
loc(frame, mask) ==
    IF frame = <<>> THEN <<>>
    ELSE (IF mask[1] THEN <<frame[1]>> ELSE <<>>) \o loc(Tail(frame), Tail(mask))

Idle == [kind |-> "none", value |-> None]

Returned(v) == [kind |-> "return", value |-> v]

Raised(e) == [kind |-> "raise", value |-> e]

\* prev observes the runs: how many have started, whether the current one
\* repeats the previous one on the same batch, whether that previous one
\* returned with all it had to upload in the store, and whether the current
\* one has had an upload fail; outage names the collaborator call of the
\* current run that failed ("auth", "fetch", "read" or "store"), if any.
NoRuns == [runs |-> 0, again |-> FALSE, stored |-> FALSE, failed |-> FALSE,
           outage |-> None]

Init ==
    /\ store = <<>>
    /\ pc = "idle"
    /\ script = None
    /\ user_email = None
    /\ raw = <<>>
    /\ df = <<>>
    /\ filtered = <<>>
    /\ ret = Idle
    /\ prev = NoRuns

\* An entry point is called and the mail collaborator returns a batch.
Begin(s, owner, batch) ==
    /\ pc = "idle"
    /\ prev.runs < MaxRuns
    /\ pc' = "fetched"
    /\ script' = s
    /\ user_email' = owner
    /\ raw' = batch
    /\ prev' = [NoRuns EXCEPT !.runs = prev.runs + 1]
    /\ UNCHANGED <<store, df, filtered, ret>>

\* gmail_update(user_email, num_emails) up to get_emails
GmailStart == \E owner \in GmailUsers : \E batch \in Fetched(GmailInbox) :
                  Begin("gmail", owner, batch)

\* outlook_update(num_emails) up to get_emails
OutlookStart == \E batch \in Fetched(OutlookInbox) : Begin("outlook", None, batch)

\* update_data(num_emails) up to get_emails
UpdateDataStart == \E batch \in Fetched(UpdateDataInbox) : Begin("update_data", None, batch)

\* main() up to connect_to_ms; the batch is what inbox.get_messages yields
MainStart == \E batch \in Fetched(MainInbox) : Begin("main", None, batch)

\* What the entry point does when the credential or token acquisition
\* fails.  gmail.py lines 440-444: the exception of get_credentials is
\* caught and False returned.  outlook.py lines 282-290 and update_data.py
\* lines 246-249: an exception of get_access_token becomes a ConnectionError,
\* while a token that is None makes get_emails return None and the loop of
\* email_to_dataframe raise TypeError.  main.py lines 215-218: ConnectionError.
AuthOutcomes(s) ==
    IF s = "gmail" THEN {Returned("False")}
    ELSE IF s = "main" THEN {Raised("ConnectionError")}
    ELSE {Raised("ConnectionError"), Raised("TypeError")}

\* What the entry point does when the mail fetch fails.  gmail.py get_emails
\* lets the error of the list request escape; outlook.py and update_data.py
\* get_emails catch it and return None, on which the loop of
\* email_to_dataframe raises TypeError; main.py lets the error of
\* inbox.get_messages escape.
FetchOutcomes(s) ==
    IF s \in {"outlook", "update_data"} THEN {Raised("TypeError")}
    ELSE {Raised("HttpError")}

\* A run whose collaborator call of the given kind fails before any batch
\* is parsed.
Outage(s, owner, kind, outcome) ==
    /\ pc = "idle"
    /\ prev.runs < MaxRuns
    /\ pc' = "done"
    /\ script' = s
    /\ user_email' = owner
    /\ raw' = <<>>
    /\ df' = <<>>
    /\ filtered' = <<>>
    /\ ret' = outcome
    /\ prev' = [NoRuns EXCEPT !.runs = prev.runs + 1, !.outage = kind]
    /\ UNCHANGED store

Scripts == {"gmail", "outlook", "update_data", "main"}

\* the account a run of the entry point is for
OwnersOf(s) == IF s = "gmail" THEN GmailUsers ELSE {None}

AuthFails == \E s \in Scripts : \E owner \in OwnersOf(s) : \E outcome \in AuthOutcomes(s) :
                 Outage(s, owner, "auth", outcome)

FetchFails == \E s \in Scripts : \E owner \in OwnersOf(s) : \E outcome \in FetchOutcomes(s) :
                  Outage(s, owner, "fetch", outcome)

\* The parse of the batch, and the entry point's test of an empty frame
\* (main.py has no such test).
Parse(s, out) ==
    /\ pc = "fetched"
    /\ script = s
    /\ IF out.exc /= None
       THEN pc' = "done" /\ df' = <<>> /\ ret' = Raised(out.exc)
       ELSE IF out.rows = <<>> /\ s /= "main"
       THEN pc' = "done" /\ df' = <<>> /\ ret' = Returned("None")
       ELSE pc' = "parsed" /\ df' = out.rows /\ ret' = ret
    /\ UNCHANGED <<store, script, user_email, raw, filtered, prev>>

GmailParse == Parse("gmail", gmail_email_to_dataframe(raw))

OutlookParse == Parse("outlook", outlook_email_to_dataframe(raw))

UpdateDataParse == Parse("update_data", update_data_email_to_dataframe(raw))

MainFetch == Parse("main", fetch_emails(raw))

\* The read of the existing ids and the filter.  When the read fails
\* fetch_supabase_data returns DataFrame() (main.py: the class DataFrame), and
\* previous_dataframe['Id'] raises.
Dedup ==
    /\ pc = "parsed"
    /\ \E read_ok \in BOOLEAN :
        /\ IF read_ok
           THEN /\ pc' = "filtered"
                /\ filtered' = loc(df, is_new(df, fetch_supabase_data(script, user_email, store)))
                /\ ret' = ret
           ELSE /\ pc' = "done"
                /\ filtered' = <<>>
                /\ ret' = Raised(IF script = "main" THEN "TypeError" ELSE "KeyError")
        /\ prev' = [prev EXCEPT !.outage = IF read_ok THEN None ELSE "read"]
    /\ UNCHANGED <<store, script, user_email, raw, df>>

\* `if filtered_transactions.empty: return`
NothingNew ==
    /\ pc = "filtered"
    /\ filtered = <<>>
    /\ pc' = "done"
    /\ ret' = Returned("None")
    /\ UNCHANGED <<store, script, user_email, raw, df, filtered, prev>>

\* main(): categorize_transactions(filtered_transactions)
Categorize ==
    /\ pc = "filtered"
    /\ script = "main"
    /\ filtered /= <<>>
    /\ LET out == categorize_transactions(filtered)
       IN  IF out.exc /= None
           THEN pc' = "done" /\ filtered' = filtered /\ ret' = Raised(out.exc)
           ELSE pc' = "categorized" /\ filtered' = out.val /\ ret' = ret
    /\ UNCHANGED <<store, script, user_email, raw, df, prev>>

\* What the entry point returns after send_df_to_supabase returned sent.
Outcome(s, sent) ==
    IF s = "main" THEN "None"
    ELSE IF s = "update_data" THEN "True"
    ELSE IF sent THEN "True" ELSE "False"

\* send_df_to_supabase: the rows are appended to the table, or the upload
\* fails and the table is left as it was.
Upload ==
    /\ \/ pc = "filtered" /\ script /= "main" /\ filtered /= <<>>
       \/ pc = "categorized"
    /\ \E sent \in BOOLEAN :
        /\ store' = IF sent THEN store \o filtered ELSE store
        /\ ret' = Returned(Outcome(script, sent))
        /\ prev' = [prev EXCEPT !.failed = ~sent,
                               !.outage = IF sent THEN None ELSE "store"]
    /\ pc' = "done"
    /\ UNCHANGED <<script, user_email, raw, df, filtered>>

\* The entry point is called again and the mail collaborator returns the
\* same batch.
Rerun ==
    /\ pc = "done"
    /\ prev.runs < MaxRuns
    /\ pc' = "fetched"
    /\ df' = <<>>
    /\ filtered' = <<>>
    /\ ret' = Idle
    /\ prev' = [runs |-> prev.runs + 1, again |-> TRUE,
                stored |-> ret.kind = "return" /\ prev.outage = None, failed |-> FALSE,
                outage |-> None]
    /\ UNCHANGED <<store, script, user_email, raw>>

\* The process ends.
Finish ==
    /\ pc = "done"
    /\ pc' = "idle"
    /\ script' = None
    /\ user_email' = None
    /\ raw' = <<>>
    /\ df' = <<>>
    /\ filtered' = <<>>
    /\ ret' = Idle
    /\ prev' = [prev EXCEPT !.again = FALSE, !.stored = FALSE, !.failed = FALSE,
                           !.outage = None]
    /\ UNCHANGED store

Next ==
    \/ GmailStart
    \/ OutlookStart
    \/ UpdateDataStart
    \/ MainStart
    \/ AuthFails
    \/ FetchFails
    \/ GmailParse
    \/ OutlookParse
    \/ UpdateDataParse
    \/ MainFetch
    \/ Dedup
    \/ NothingNew
    \/ Categorize
    \/ Upload
    \/ Rerun
    \/ Finish

Spec == Init /\ [][Next]_vars

-----------------------------------------------------------------------------
(* The parse alone, over the batches of every kind of message *)

ParseInit ==
    /\ store = <<>>
    /\ pc = "fetched"
    /\ \/ script = "gmail" /\ user_email = ANA /\ raw \in Batches(GmailKinds, "id")
       \/ script = "outlook" /\ user_email = None /\ raw \in Batches(OutlookKinds, "id")
       \/ script = "update_data" /\ user_email = None
              /\ raw \in Batches(UpdateDataKinds, "id")
       \/ script = "main" /\ user_email = None /\ raw \in Batches(MainKinds, "object_id")
    /\ df = <<>>
    /\ filtered = <<>>
    /\ ret = Idle
    /\ prev = [NoRuns EXCEPT !.runs = 1]

ParseNext ==
    \/ GmailParse
    \/ OutlookParse
    \/ UpdateDataParse
    \/ MainFetch

ParseSpec == ParseInit /\ [][ParseNext]_vars

-----------------------------------------------------------------------------
(* Properties of the parse *)

\* the scripts that have an email_to_dataframe
Variants == {"gmail", "outlook", "update_data"}

\* email_to_dataframe (main.py: fetch_emails) of script s
email_to_dataframe(s, raw_emails) ==
    IF s = "gmail" THEN gmail_email_to_dataframe(raw_emails)
    ELSE IF s = "outlook" THEN outlook_email_to_dataframe(raw_emails)
    ELSE IF s = "update_data" THEN update_data_email_to_dataframe(raw_emails)
    ELSE fetch_emails(raw_emails)

\* the parse of the batch has ended
Parsed == pc \in {"parsed", "done"}

\* the rows of a result, none when an exception escaped
RowsIfAny(out) == IF out.exc = None THEN out.rows ELSE <<>>

RECURSIVE RowsOfEach(_, _)
\* the rows the messages of a batch give when each is parsed on its own
RowsOfEach(s, batch) ==
    IF batch = <<>> THEN <<>>
    ELSE RowsIfAny(email_to_dataframe(s, <<batch[1]>>)) \o RowsOfEach(s, Tail(batch))

\* the message parses on its own without an exception escaping
ParsesAlone(s, message) == email_to_dataframe(s, <<message>>).exc = None

\* C1: every record an email_to_dataframe variant emits has exactly one of
\* payment_reason and transferation_type non-null, never both, never
\* neither.
C1_ExactlyOneOfReasonAndType ==
    pc = "parsed" /\ script \in Variants =>
        \A k \in 1..Len(df) :
            (df[k].payment_reason /= None) /= (df[k].transferation_type /= None)

\* a batch that gave a card purchase and then a transfer
C1_PurchaseAndTransferEmitted ==
    /\ pc = "parsed"
    /\ script = "gmail"
    /\ Len(df) = 2
    /\ df[1].payment_reason /= None
    /\ df[2].transferation_type /= None

\* the subject is one of the shapes gmail.py recognizes
GmailRecognized(subject) ==
    \/ subject \in TC_SUBJECTS
    \/ Contains(lower(subject), "transferencia")
    \/ subject \in {"Comprobante Pago Tarjeta", "Comprobante Pago Tarjeta Internacional"}

\* the subject is one of the shapes outlook.py recognizes
OutlookRecognized(subject) ==
    \/ subject \in TC_SUBJECTS
    \/ Contains(lower(subject), "transferencia")
    \/ subject \in {"Pago de Tarjeta de Crédito Nacional",
                    "Pago de Tarjeta de Crédito Internacional"}

\* the text lacks a money or a timestamp match the shape of the subject needs
LacksIn(subject, content, payment) ==
    \/ subject \in TC_SUBJECTS /\ (MONEY(content) = <<>> \/ TC_TIMESTAMP(content) = <<>>)
    \/ Contains(lower(subject), "transferencia") /\ MONEY(content) = <<>>
    \/ payment

\* A message of an allow-listed sender with a recognized subject and a
\* readable body, in which a required money or timestamp pattern has no match.
LacksPattern(s, message) ==
    IF s = "gmail"
    THEN /\ ~GmailSkips(parse_sender(message.payload.headers),
                        message.payload.headers.Subject)
         /\ GmailRecognized(message.payload.headers.Subject)
         /\ get_body_text(message).exc = None
         /\ LacksIn(message.payload.headers.Subject, get_body_text(message).val,
                    /\ message.payload.headers.Subject \notin TC_SUBJECTS
                    /\ ~Contains(lower(message.payload.headers.Subject), "transferencia")
                    /\ TC_PAYMENT_MONEY(get_body_text(message).val) = <<>>)
    ELSE IF s = "outlook"
    THEN /\ message.sender \in AUTH_USERS
         /\ OutlookSender(message).exc = None
         /\ OutlookSender(message).val.sender \in SENDER_EMAIL
         /\ OutlookRecognized(Tail_(message.subject, 5))
         /\ LacksIn(Tail_(message.subject, 5), message.body.content.text,
                    /\ Tail_(message.subject, 5) \notin TC_SUBJECTS
                    /\ ~Contains(lower(Tail_(message.subject, 5)), "transferencia")
                    /\ TC_PAYMENT_MONEY_MONTO(message.body.content.text) = <<>>)
    ELSE /\ s = "update_data"
         /\ message.sender = UD_SENDER_EMAIL
         /\ "body" \in DOMAIN message
         /\ message.body.content.bodyTag
         /\ \/ MONEY(message.body.content.text) = <<>>
            \/ TC_TIMESTAMP(message.body.content.text) = <<>>

\* C2: in every email_to_dataframe variant a message of an allow-listed
\* sender with a recognized subject that lacks a required money or timestamp
\* match yields no record, no exception escapes, and the other messages of
\* the batch are still processed, wherever in the batch the message is.
C2_ExtractionFailureIsSkipped ==
    /\ Parsed
    /\ script \in Variants
    /\ \E k \in 1..Len(raw) : LacksPattern(script, raw[k])
    /\ \A k \in 1..Len(raw) : LacksPattern(script, raw[k]) \/ ParsesAlone(script, raw[k])
    => ret.kind /= "raise" /\ df = RowsOfEach(script, raw)

\* the body is missing or has no decodable part or, in outlook.py, no
\* embedded sender address is found in it
BodyFails(s, message) ==
    IF s = "gmail" THEN get_body_text(message).exc /= None
    ELSE IF s = "outlook" THEN OutlookSender(message).exc /= None
    ELSE "body" \notin DOMAIN message \/ ~message.body.content.bodyTag

\* C3: a message whose body is missing or has no decodable part (in the
\* forwarded variant: in which no embedded sender is found) is omitted and
\* the rest of the batch is processed; the batch is never aborted.
C3_UnreadableBodyIsSkipped ==
    /\ Parsed
    /\ script \in Variants
    /\ \E k \in 1..Len(raw) : BodyFails(script, raw[k])
    /\ \A k \in 1..Len(raw) : BodyFails(script, raw[k]) \/ ParsesAlone(script, raw[k])
    => ret.kind /= "raise" /\ df = RowsOfEach(script, raw)

\* the sender is not in the allow-list, or the subject is none of the
\* recognized shapes (update_data.py recognizes its messages by sender alone)
Unrecognized(s, message) ==
    IF s = "gmail"
    THEN \/ parse_sender(message.payload.headers) \notin SENDER_EMAIL
         \/ ~GmailRecognized(message.payload.headers.Subject)
    ELSE IF s = "outlook"
    THEN \/ ~OutlookRecognized(Tail_(message.subject, 5))
         \/ OutlookSender(message).exc = None
                /\ OutlookSender(message).val.sender \notin SENDER_EMAIL
    ELSE message.sender /= UD_SENDER_EMAIL

\* C4: a message whose sender is not in the allow-list or whose subject is
\* none of the recognized shapes never yields a record and never makes
\* email_to_dataframe raise, whatever its body is.
C4_UnrecognizedNeverRaises ==
    /\ Parsed
    /\ script \in Variants
    /\ \A k \in 1..Len(raw) : Unrecognized(script, raw[k])
    => ret.kind /= "raise" /\ df = <<>>

\* the allow-list of script s
AllowList(s) == IF s \in {"gmail", "outlook"} THEN SENDER_EMAIL ELSE {UD_SENDER_EMAIL}

\* the sender the script recovers from a message, None when it finds none
RecoveredSender(s, message) ==
    IF s = "gmail" THEN parse_sender(message.payload.headers)
    ELSE IF s = "outlook"
    THEN (IF OutlookSender(message).exc = None THEN OutlookSender(message).val.sender
          ELSE None)
    ELSE message.sender

\* C8: the sender of every emitted record is exactly an address of the
\* allow-list and is the sender recovered from the record's message, and a
\* message whose recovered sender is not exactly such an address yields no
\* record.
C8_SenderIsAllowListed ==
    pc = "parsed" =>
        /\ \A k \in 1..Len(df) :
            /\ df[k].sender \in AllowList(script)
            /\ \E j \in 1..Len(raw) :
                /\ raw[j][IdKey(script)] = df[k].Id
                /\ RecoveredSender(script, raw[j]) = df[k].sender
        /\ \A j \in 1..Len(raw) :
            RecoveredSender(script, raw[j]) \notin AllowList(script) =>
                \A k \in 1..Len(df) : df[k].Id /= raw[j][IdKey(script)]

\* update_data.py has let a sender that is a part of the allow-list string
\* into its try block, and has emitted the record of another message only
C8_SubstringSenderGivesNoRecord ==
    /\ pc = "parsed"
    /\ script = "update_data"
    /\ Len(raw) = 2
    /\ raw[2].sender = "digital@bancochile.cl"
    /\ Len(df) = 1

-----------------------------------------------------------------------------
(* Properties of the pipelines *)

\* C5: a pipeline run again on the same batch, the store holding what the
\* first run had to upload, finds nothing new: nothing is uploaded.
C5_SecondRunFindsNothingNew ==
    pc = "filtered" /\ script \in Variants /\ prev.again /\ prev.stored => filtered = <<>>

\* the candidate is not among the rows the filter kept
Dropped(k) == \A j \in 1..Len(filtered) : filtered[j] /= df[k]

\* the owner a candidate is processed for: gmail.py the account the run
\* reads, the others the owner the record names
Owner(k) == IF script = "gmail" THEN user_email ELSE Col(df[k], "user_email")

\* C6: the filter drops a candidate only for an id stored for the owner
\* being processed: an id stored for another owner drops nothing.
C6_DedupIsScopedPerOwner ==
    pc = "filtered" =>
        \A k \in 1..Len(df) :
            Dropped(k) =>
                \E i \in 1..Len(store) :
                    /\ store[i].Id = df[k].Id
                    /\ Col(store[i], "user_email") = Owner(k)

\* the ids the filter consults: gmail.py those of the rows stored for the
\* account read, the others those of every row
Consulted ==
    {store[i].Id : i \in {h \in 1..Len(store) :
                             script = "gmail" => Col(store[h], "user_email") = user_email}}

\* the indices of the candidates whose Id is none of the consulted ids
New == {k \in 1..Len(df) : df[k].Id \notin Consulted}

\* C7: what the filter keeps is exactly the candidates whose Id is none of
\* the consulted ids, unchanged and in their order.
C7_DedupKeepsExactlyTheNew ==
    pc = "filtered" =>
        /\ Len(filtered) = Cardinality(New)
        /\ \A j \in 1..Len(filtered) :
            filtered[j] = df[CHOOSE k \in New : Cardinality({h \in New : h <= k}) = j]

\* of three candidates the middle one was dropped
C7_MiddleCandidateDropped ==
    /\ pc = "filtered"
    /\ Len(df) = 3
    /\ New = {1, 3}
    /\ filtered = <<df[1], df[3]>>

\* the category the mapping gives a reason: the label of the key that is
\* the reason, null when no key is
IsLookup(reason, category) ==
    \/ \E kv \in REASON_MAP : kv[1] = reason /\ kv[2] = category
    \/ category = None /\ \A kv \in REASON_MAP : kv[1] /= reason

\* C9: the category of every categorized record is the label the mapping
\* gives its reason, null when the reason is no key of the mapping; the
\* categorizer raises on no record.
C9_CategoryIsTheLookup ==
    /\ pc = "categorized" =>
           \A k \in 1..Len(filtered) : IsLookup(filtered[k].reason, filtered[k].category)
    /\ \A i \in 1..Len(store) :
           "reason" \in DOMAIN store[i] => IsLookup(store[i].reason, Col(store[i], "category"))
    /\ ~(script = "main" /\ pc = "done" /\ ret.kind = "raise" /\ filtered /= <<>>)

\* a mapped reason and an unmapped one were categorized together
C9_HitAndMissCategorized ==
    /\ pc = "categorized"
    /\ Len(filtered) = 2
    /\ filtered[1].reason = "UBER LAS CONDES CHL"
    /\ filtered[1].category = "Transporte"
    /\ filtered[2].reason = "KIOSKO EL PASO CHL"
    /\ filtered[2].category = None

\* the subjects of the card bill payments: outlook.py line 238, gmail.py
\* lines 350 and 359
BILL_PAYMENT_SUBJECTS ==
    {"Pago de Tarjeta de Crédito Nacional", "Pago de Tarjeta de Crédito Internacional",
     "Comprobante Pago Tarjeta", "Comprobante Pago Tarjeta Internacional"}

\* C10: a record whose transferation_type is a bill payment subject has the
\* category "Credit Card Bill Payment".
C10_BillPaymentCategory ==
    \A i \in 1..Len(store) :
        Col(store[i], "transferation_type") \in BILL_PAYMENT_SUBJECTS =>
            Col(store[i], "category") = "Credit Card Bill Payment"

-----------------------------------------------------------------------------
(* Properties of the entry points *)

\* C11: no record is appended to the store before the Categorizer has
\* assigned its category: the store grows only in a run that has passed the
\* filter and then the categorizer.
C11_StoredOnlyAfterCategorizer == [][store' /= store => pc = "categorized"]_vars

\* the message gives no record and no exception when parsed
YieldsNothing(s, message) ==
    IF s = "main" THEN MainMessage(message).tag = "continue"
    ELSE email_to_dataframe(s, <<message>>) = [exc |-> None, rows |-> <<>>]

\* C12: a run in which no fetched message parses into a record, or in which
\* every parsed record is already stored, ends without raising and hands
\* nothing to the store, no collaborator call having failed.
C12_NothingToDoEndsNormally ==
    pc = "done" /\ prev.outage = None =>
        /\ (\A k \in 1..Len(raw) : YieldsNothing(script, raw[k]))
               => ret.kind = "return" /\ filtered = <<>>
        /\ df /= <<>> /\ filtered = <<>> => ret.kind = "return"

\* C13: a run in which a collaborator call failed ends by raising to the
\* caller of the entry point.
C13_OutagePropagates == pc = "done" /\ prev.outage /= None => ret.kind = "raise"

\* C16: whenever gmail_update returns, it returns True or False.
C16_GmailUpdateReturnsBoolean ==
    pc = "done" /\ script = "gmail" /\ ret.kind = "return" => ret.value \in {"True", "False"}

-----------------------------------------------------------------------------
(* Properties of the records *)

\* the index of the first '$' of a text that a numeral character follows,
\* 0 when there is none
FirstDollar(t) ==
    LET at == {p \in 1..(Len(t) - 1) : Char(t, p) = "$" /\ Char(t, p + 1) \in NumeralCh}
    IN  IF at = {} THEN 0 ELSE MinOf(at)

\* the US marker stands immediately before the character at p
HasMarker(t, p) == p >= 3 /\ SubSeq(t, p - 2, p - 1) = "US"

\* the numeral that follows the character at p
NumeralAfter(t, p) == SubSeq(t, p + 1, RunEnd(t, p + 1, NumeralCh) - 1)

RECURSIVE Pow10(_)
Pow10(n) == IF n = 0 THEN 1 ELSE 10 * Pow10(n - 1)

RECURSIVE DigitsOf(_)
\* the digits of a numeral, its separators left out
DigitsOf(n) ==
    IF n = "" THEN ""
    ELSE (IF Char(n, 1) \in Digit THEN Char(n, 1) ELSE "") \o DigitsOf(Tail_(n, 2))

\* the number of digits after the ',' of a numeral that has one ',' at most
Decimals(n) ==
    LET comma == {k \in 1..Len(n) : Char(n, k) = ","}
    IN  IF comma = {} THEN 0 ELSE Len(DigitsOf(Tail_(n, MinOf(comma) + 1)))

\* the amount is the number the numeral denotes when '.' separates thousands
\* and ',' is the decimal point
Denotes(amount, n) ==
    /\ amount.float
    /\ amount.m * Pow10(Decimals(n)) = ToInt(DigitsOf(n)) * Pow10(amount.e)

\* the record is a card purchase or a transfer
PurchaseOrTransfer(row) == Col(row, "transaction_type") /= "Pago de Tarjeta de Crédito"

\* C14: the currency and the amount of a card purchase or transfer record
\* come from the first money match of its content: USD exactly when the US
\* marker stands before the '$', and the numeral read with '.' removed and
\* ',' as the decimal point.
C14_MoneyIsTheFirstMatch ==
    pc = "parsed" =>
        \A k \in 1..Len(df) :
            PurchaseOrTransfer(df[k]) =>
                /\ FirstDollar(df[k].content) /= 0
                /\ df[k].currency =
                       IF HasMarker(df[k].content, FirstDollar(df[k].content))
                       THEN "USD" ELSE "CLP"
                /\ Denotes(df[k].amount,
                           NumeralAfter(df[k].content, FirstDollar(df[k].content)))

\* '$12.345,67' followed by another amount gave 12345.67 CLP, and 'US$25,90'
\* gave 25.9 USD
C14_CentsAndDollarsParsed ==
    /\ pc = "parsed"
    /\ script = "gmail"
    /\ Len(df) = 2
    /\ df[1].currency = "CLP" /\ df[1].amount = FloatVal(1234567, 2)
    /\ df[2].currency = "USD" /\ df[2].amount = FloatVal(259, 1)

\* C15: the amount of every emitted record, of every shape and variant, is
\* a non-negative number parsed from the money string, never the string.
C15_AmountIsANumber ==
    pc = "parsed" => \A k \in 1..Len(df) : df[k].amount.float /\ df[k].amount.m >= 0

\* the subject a message is classified by
SubjectOf(s, message) ==
    IF s = "gmail" THEN message.payload.headers.Subject ELSE Tail_(message.subject, 5)

\* the phrase of the subjects that announce received funds (gmail.py line 310)
EXCLUSION_PHRASE == "Transferencias de Fondos de"

\* the record the message of the batch gave is a Transfer
GaveTransfer(message) ==
    \E k \in 1..Len(df) : df[k].Id = message.id /\ df[k].transaction_type = "Transferencia"

\* C17: in gmail.py and outlook.py a message whose subject contains the
\* exclusion phrase never yields a Transfer record, and a record of a
\* subject that is no card purchase subject is a Transfer only if the
\* subject contains 'transferencia' in some case.
C17_ExcludedSubjectIsNoTransfer ==
    pc = "parsed" /\ script \in {"gmail", "outlook"} =>
        \A j \in 1..Len(raw) :
            GaveTransfer(raw[j]) =>
                /\ Contains(lower(SubjectOf(script, raw[j])), "transferencia")
                /\ ~Contains(SubjectOf(script, raw[j]), EXCLUSION_PHRASE)

\* the subject without its leading forward marker, unchanged when it has none
Unforwarded(subject) ==
    IF startswith(subject, "Fw: ") \/ startswith(subject, "FW: ")
    THEN Tail_(subject, 5) ELSE subject

\* the batch, every subject given the forward marker it may lack
Marked(batch) ==
    [j \in 1..Len(batch) |->
        IF "subject" \in DOMAIN batch[j]
        THEN [batch[j] EXCEPT !.subject = "Fw: " \o Unforwarded(@)]
        ELSE batch[j]]

\* the message of the batch that has the id
MessageOf(id) == raw[CHOOSE j \in 1..Len(raw) : raw[j].id = id]

\* C18: outlook.py classifies by the subject without its leading forward
\* marker, which is the unchanged subject when there is no marker (so a
\* batch parses as it does with every marker in place), and by the address
\* recovered from the forwarded body, never the forwarding mailbox's own.
C18_ForwardMarkerAndEmbeddedSender ==
    Parsed /\ script = "outlook" /\ ret.kind /= "raise" =>
        /\ df = RowsIfAny(outlook_email_to_dataframe(Marked(raw)))
        /\ \A k \in 1..Len(df) :
               df[k].sender = OutlookSender(MessageOf(df[k].Id)).val.sender

\* the children of a part that are of the type and carry data
Children(part, mime) ==
    {a \in 1..Len(Get(part, "parts", <<>>)) : PartHasData(part.parts[a], mime)}

\* a part whose children include a text/plain and a text/html part with data
HasBoth(part) == Children(part, "text/html") /= {} /\ Children(part, "text/plain") /= {}

\* the data of the first text/html child
HtmlData(part) == part.parts[MinOf(Children(part, "text/html"))].body.data

\* C19: for a payload whose children include a text/plain and a text/html
\* part with data, _get_body_data returns the HTML part's data, whatever
\* the order of the two, and the record has the HTML part's text.
C19_HtmlPreferredAmongSiblings ==
    Parsed /\ script = "gmail" =>
        \A j \in 1..Len(raw) :
            HasBoth(raw[j].payload) =>
                /\ get_body_data(raw[j].payload) = <<HtmlData(raw[j].payload)>>
                /\ \A k \in 1..Len(df) :
                       df[k].Id = raw[j].id =>
                           df[k].content = collapse(strip(HtmlData(raw[j].payload).text))

\* the subjects of the international and of the domestic bill payment
INTERNATIONAL_PAYMENT ==
    {"Comprobante Pago Tarjeta Internacional", "Pago de Tarjeta de Crédito Internacional"}

DOMESTIC_PAYMENT == {"Comprobante Pago Tarjeta", "Pago de Tarjeta de Crédito Nacional"}

\* the index of the whitespace of the first 'USD', whitespace, numeral of a
\* text, 0 when there is none
FirstUsd(t) ==
    LET at == {p \in 1..Len(t) : /\ StartsAt(t, p, "USD")
                                 /\ AllIn(t, p + 3, 1, Space)
                                 /\ AllIn(t, p + 4, 1, NumeralCh)}
    IN  IF at = {} THEN 0 ELSE MinOf(at) + 3

\* the index of the '$' of the first 'Monto $' of a text, 0 when there is none
FirstMonto(t) ==
    LET at == {p \in 1..Len(t) : StartsAt(t, p, "Monto $") /\ AllIn(t, p + 7, 1, NumeralCh)}
    IN  IF at = {} THEN 0 ELSE MinOf(at) + 6

\* the amount is the numeral, parsed or not
AmountFrom(amount, n) ==
    /\ n /= ""
    /\ IF amount.float THEN Denotes(amount, n) ELSE amount.text = n

\* the '$' of the CLP capture group of the variant's payment pattern
ClpGroup(s, t) == IF s = "gmail" THEN FirstDollar(t) ELSE FirstMonto(t)

\* C20: a card payment record of an international subject has currency USD
\* and the amount of the USD capture group, one of a domestic subject has
\* currency CLP and the amount of the CLP capture group, and the group a
\* record's amount comes from is not empty.
C20_PaymentGroupBySubject ==
    pc = "parsed" /\ script \in {"gmail", "outlook"} =>
        \A k \in 1..Len(df) :
            /\ df[k].transferation_type \in INTERNATIONAL_PAYMENT =>
                   /\ df[k].currency = "USD"
                   /\ FirstUsd(df[k].content) /= 0
                   /\ AmountFrom(df[k].amount,
                                 NumeralAfter(df[k].content, FirstUsd(df[k].content)))
            /\ df[k].transferation_type \in DOMESTIC_PAYMENT =>
                   /\ df[k].currency = "CLP"
                   /\ ClpGroup(script, df[k].content) /= 0
                   /\ AmountFrom(df[k].amount,
                                 NumeralAfter(df[k].content, ClpGroup(script, df[k].content)))

-----------------------------------------------------------------------------
(* Properties of the fields *)

\* the text has a money and a timestamp match and no reason match
NoReasonIn(content) ==
    /\ MONEY(content) /= <<>>
    /\ TC_TIMESTAMP(content) /= <<>>
    /\ TC_REASON(content) = <<>>

\* A card purchase message, as the variant recognizes it, whose text has a
\* money and a timestamp match and no reason match.
PurchaseWithoutReason(s, message) ==
    IF s = "gmail"
    THEN /\ ~GmailSkips(parse_sender(message.payload.headers),
                        message.payload.headers.Subject)
         /\ message.payload.headers.Subject \in TC_SUBJECTS
         /\ get_body_text(message).exc = None
         /\ NoReasonIn(get_body_text(message).val)
    ELSE IF s = "outlook"
    THEN /\ message.sender \in AUTH_USERS
         /\ OutlookSender(message).exc = None
         /\ OutlookSender(message).val.sender \in SENDER_EMAIL
         /\ Tail_(message.subject, 5) \in TC_SUBJECTS
         /\ NoReasonIn(message.body.content.text)
    ELSE /\ s = "update_data"
         /\ message.sender = UD_SENDER_EMAIL
         /\ "body" \in DOMAIN message
         /\ message.body.content.bodyTag
         /\ NoReasonIn(message.body.content.text)

\* the subject of a card purchase message
PurchaseSubject(s, message) ==
    IF s = "gmail" THEN message.payload.headers.Subject
    ELSE IF s = "outlook" THEN Tail_(message.subject, 5)
    ELSE message.subject

\* C21: in every email_to_dataframe variant a card purchase message whose
\* money and timestamp patterns match and whose reason pattern does not
\* still gives a record, with the subject as its payment_reason.
C21_ReasonFallsBackToSubject ==
    Parsed /\ script \in Variants /\ ret.kind /= "raise" =>
        \A j \in 1..Len(raw) :
            PurchaseWithoutReason(script, raw[j]) =>
                \E k \in 1..Len(df) :
                    /\ df[k].Id = raw[j].id
                    /\ df[k].payment_reason = PurchaseSubject(script, raw[j])

\* the UTC instant of the message's sent/received header
HeaderTime(s, message) ==
    IF s = "gmail" THEN message.payload.headers.Date ELSE message.sentDateTime

\* C22: in every variant the transaction_timestamp_local of a Transfer or
\* CardPayment record is the message's header time converted from UTC to
\* America/Santiago, the timezone dropped: the naive UTC time moved by the
\* local UTC offset.
C22_HeaderTimeIsLocalized ==
    pc = "parsed" /\ script \in Variants =>
        \A k \in 1..Len(df) :
            df[k].transferation_type /= None =>
                /\ df[k].transaction_timestamp_local
                       = santiago_naive(HeaderTime(script, MessageOf(df[k].Id)))
                /\ df[k].transaction_timestamp_local
                       /= HeaderTime(script, MessageOf(df[k].Id))

\* A Transfer message, as gmail.py and outlook.py recognize it, whose money
\* pattern matches and in whose text no destination pattern matches.
TransferWithoutDestination(s, message) ==
    IF s = "gmail"
    THEN /\ ~GmailSkips(parse_sender(message.payload.headers),
                        message.payload.headers.Subject)
         /\ message.payload.headers.Subject \notin TC_SUBJECTS
         /\ Contains(lower(message.payload.headers.Subject), "transferencia")
         /\ get_body_text(message).exc = None
         /\ MONEY(get_body_text(message).val) /= <<>>
         /\ TRANSFER_DEST_T1(get_body_text(message).val) = <<>>
         /\ TRANSFER_DEST_T2(get_body_text(message).val) = <<>>
    ELSE /\ s = "outlook"
         /\ message.sender \in AUTH_USERS
         /\ OutlookSender(message).exc = None
         /\ OutlookSender(message).val.sender \in SENDER_EMAIL
         /\ Tail_(message.subject, 5) \notin TC_SUBJECTS
         /\ Contains(lower(Tail_(message.subject, 5)), "transferencia")
         /\ MONEY(message.body.content.text) /= <<>>
         /\ CC_PAYMENT_DESTINATION(message.body.content.text) = <<>>

\* C23: in gmail.py and outlook.py a Transfer message whose money pattern
\* matches and in which no destination pattern matches gives a Transfer
\* record with a null transferation_destination, and nothing is raised for
\* it.
C23_MissingDestinationIsNull ==
    /\ Parsed
    /\ script \in {"gmail", "outlook"}
    /\ \A j \in 1..Len(raw) :
           TransferWithoutDestination(script, raw[j]) \/ ParsesAlone(script, raw[j])
    => /\ ret.kind /= "raise"
       /\ \A j \in 1..Len(raw) :
              TransferWithoutDestination(script, raw[j]) =>
                  \E k \in 1..Len(df) :
                      /\ df[k].Id = raw[j].id
                      /\ df[k].transaction_type = "Transferencia"
                      /\ df[k].transferation_destination = None

\* the part, the text of its data whitespace-collapsed
CollapsedPart(part) ==
    IF "data" \in DOMAIN part.body
    THEN [part EXCEPT !.body.data.text = collapse(@)]
    ELSE part

\* the message, the text of its body whitespace-collapsed
CollapsedBody(s, message) ==
    IF s = "gmail"
    THEN [message EXCEPT !.payload.parts = [i \in DOMAIN @ |-> CollapsedPart(@[i])]]
    ELSE IF "body" \in DOMAIN message
    THEN [message EXCEPT !.body.content.text = collapse(@)]
    ELSE message

\* the batch, the text of every body whitespace-collapsed
CollapsedBodies(s, batch) == [j \in 1..Len(batch) |-> CollapsedBody(s, batch[j])]

\* the text has two whitespace characters in a row
WhitespaceRun(t) ==
    \E i \in 1..(Len(t) - 1) : Char(t, i) \in Space /\ Char(t, i + 1) \in Space

\* C24: in every variant the field patterns are applied to the
\* whitespace-collapsed text, so that a batch parses as it does when every
\* body is collapsed beforehand, and no emitted record's content has two
\* whitespace characters in a row.
C24_CollapseBeforeExtraction ==
    Parsed /\ script \in Variants =>
        /\ \A k \in 1..Len(df) : ~WhitespaceRun(df[k].content)
        /\ RowsIfAny(email_to_dataframe(script, raw))
               = RowsIfAny(email_to_dataframe(script, CollapsedBodies(script, raw)))

\* the subject of the notification, a leading forward marker left out
NotificationSubject(s, message) ==
    IF s = "gmail" THEN message.payload.headers.Subject ELSE Unforwarded(message.subject)

\* C25: the transferation_type of every emitted Transfer or CardPayment
\* record is the subject of the notification the record was parsed from,
\* without its forward marker.
C25_TypeIsTheSubject ==
    pc = "parsed" /\ script \in Variants =>
        \A k \in 1..Len(df) :
            df[k].transferation_type /= None =>
                df[k].transferation_type = NotificationSubject(script, MessageOf(df[k].Id))

-----------------------------------------------------------------------------
(* Properties of the store *)

\* C26: after any runs of the pipelines the store never holds two records
\* with the same Id for the same mailbox owner.
C26_IdUniquePerOwner ==
    \A i, j \in 1..Len(store) :
        i < j =>
            ~(/\ store[i].Id = store[j].Id
              /\ Col(store[i], "user_email") = Col(store[j], "user_email"))

\* C27: gmail_update, outlook_update and update_data return True only after
\* send_df_to_supabase reported success, never when the append failed.
C27_TrueOnlyAfterStored ==
    /\ pc = "done"
    /\ script \in {"gmail", "outlook", "update_data"}
    /\ ret = Returned("True")
    => ~prev.failed /\ prev.outage = None
====
